---- MODULE Spec2Model ----
(***************************************************************************)
(* A model of the PriceOrders matching service                             *)
(* (src/backend/services/matching.py and the helpers it calls).            *)
(*                                                                         *)
(* Text.  The tools read ASCII only, so Russian words are written in       *)
(* Latin letters: truba = "truba" (pipe), mufta (coupling), krestovina     *)
(* (cross), otvod (elbow), seryj (gray) ...  A multiplication sign is      *)
(* written x and the inch mark is written in: "110x2000" stands for        *)
(* 110(U+00D7)2000 and "32x1in" for 32(U+00D7)1(U+0022).                   *)
(*                                                                         *)
(* A SKU is a sequence of characters.  A name is a sequence of words       *)
(* (tokens separated by one blank); what a regular expression or a         *)
(* substring test of the source finds inside one word is tabulated per     *)
(* word (Tok... operators), and the extractors combine the words the way   *)
(* the source's left-to-right search over the whole string does.           *)
(*                                                                         *)
(* Confidences are kept in hundredths of a percent (95.0 is 9500), so      *)
(* that 90.0 * (ratio / 100) stays an integer.                             *)
(***************************************************************************)
EXTENDS Integers, Sequences, FiniteSets, TLC

None == "None"
NoSize == << >>

Max2(a, b) == IF a >= b THEN a ELSE b
Min2(a, b) == IF a <= b THEN a ELSE b

RECURSIVE Flatten(_)
Flatten(ss) == IF ss = << >> THEN << >> ELSE Head(ss) \o Flatten(Tail(ss))

(***************************************************************************)
(* backend/utils/normalizers.py: normalize_sku                             *)
(***************************************************************************)
SkuSeparators == {" ", "-", ".", "/", "_"}

upper(c) ==
    CASE c = "c" -> "C"
      [] c = "z" -> "Z"
      [] c = "r" -> "R"
      [] c = "t" -> "T"
      [] c = "u" -> "U"
      [] c = "b" -> "B"
      [] c = "a" -> "A"
      [] c = "x" -> "X"
      [] OTHER -> c

RECURSIVE lstrip0(_)
lstrip0(s) == IF s # << >> /\ Head(s) = "0" THEN lstrip0(Tail(s)) ELSE s

normalize_sku(sku) ==
    IF sku = << >> THEN << >>
    ELSE LET up == [i \in 1..Len(sku) |-> upper(sku[i])]
             res == SelectSeq(up, LAMBDA c : c \notin SkuSeparators)
             stripped == lstrip0(res)
         IN  IF stripped = << >> THEN <<"0">> ELSE stripped

startswith(s, prefix) ==
    /\ Len(s) >= Len(prefix)
    /\ SubSeq(s, 1, Len(prefix)) = prefix

(***************************************************************************)
(* fuzz.ratio of fuzzywuzzy, as matching.py calls it on two normalized     *)
(* SKUs: 0 when either string is empty, else round(100 * 2M / T) with M    *)
(* the number of matching characters (the longest common subsequence for   *)
(* the SKUs used here) and T the sum of the two lengths.                   *)
(***************************************************************************)
RECURSIVE LCS(_, _)
LCS(a, b) ==
    IF a = << >> \/ b = << >> THEN 0
    ELSE IF Head(a) = Head(b) THEN 1 + LCS(Tail(a), Tail(b))
    ELSE Max2(LCS(Tail(a), b), LCS(a, Tail(b)))

fuzz_ratio(a, b) ==
    IF a = << >> \/ b = << >> THEN 0
    ELSE LET T == Len(a) + Len(b)
         IN  (400 * LCS(a, b) + T) \div (2 * T)

(***************************************************************************)
(* Words.  Per word: what the source's patterns find inside it.            *)
(***************************************************************************)
Words == {"truba", "mufta", "krestovina", "110x2000", "110x3000",
          "32x1in", "32", "seryj", "z", "v/r"}

\* number of characters of a word (len(query.strip()) in LLMMatcher.match)
TokLen(w) ==
    CASE w = "truba" -> 5 [] w = "mufta" -> 5 [] w = "krestovina" -> 10
      [] w = "110x2000" -> 8 [] w = "110x3000" -> 8 [] w = "32x1in" -> 5
      [] w = "32" -> 2 [] w = "seryj" -> 5 [] w = "z" -> 1
      [] w = "sinikon" -> 7 [] w = "v/r" -> 3 [] w = "n/r" -> 3

\* the substrings, among those the source tests for, that occur in a word
TokMarkers(w) ==
    CASE w = "truba" -> {"trub"}
      [] w = "mufta" -> {"muft"}
      [] w = "krestovina" -> {"krestovin"}
      [] w = "seryj" -> {"ser", "seryj"}
      [] w = "v/r" -> {"v/r"}
      [] w = "n/r" -> {"n/r"}
      [] OTHER -> {}

\* first match of (\d+)\s*[x*-]\s*(\d+) inside a word, as (group 1, group 2)
TokPipe(w) ==
    CASE w = "110x2000" -> <<110, 2000>>
      [] w = "110x3000" -> <<110, 3000>>
      [] w = "32x1in" -> <<32, 1>>
      [] OTHER -> NoSize

\* first match of \b(\d{2,3})\s*[-/x*]\s*(\d{2,3})(...(\d{2,3}))?\b in a word
TokFitMulti(w) == NoSize

\* the matches of \b(\d{2,3})\b inside a word, left to right
TokNums(w) ==
    CASE w = "110x2000" -> <<110>>
      [] w = "110x3000" -> <<110>>
      [] w = "32x1in" -> <<32>>
      [] w = "32" -> <<32>>
      [] OTHER -> << >>

\* thread size written in a word: (mm, inches)
TokThread(w) ==
    CASE w = "32x1in" -> <<32, "1">>
      [] OTHER -> NoSize

\* first match of \b(15|30|45|67|87|90)\s*[...]? inside a word, 0 for none
TokAngle(w) ==
    CASE w = "110x3000" -> 30
      [] OTHER -> 0

\* first match of /\s*(15|30|45|67|87|90)\b inside a word, 0 for none
TokSlashAngle(w) == 0

\* the range (a-b) written in a word, for clamps
TokClampRange(w) == NoSize

\* normalize_name applied to one word: the words it leaves
NormTok(w) ==
    CASE w = "110x2000" -> <<"110", "2000">>
      [] w = "110x3000" -> <<"110", "3000">>
      [] w = "32x1in" -> <<"32", "1">>
      [] w = "seryj" -> << >>
      [] w = "v/r" -> <<"vnutrennyaya", "rezba">>
      [] w = "n/r" -> <<"naruzhnaya", "rezba">>
      [] w = "v.r" -> <<"v", "r">>
      [] w = "n.r" -> <<"n", "r">>
      [] OTHER -> <<w>>

contains(name, marker) == \E i \in 1..Len(name) : marker \in TokMarkers(name[i])

any_in(name, markers) == \E m \in markers : contains(name, m)

(***************************************************************************)
(* backend/utils/normalizers.py                                            *)
(***************************************************************************)
\* expand_synonyms on the keys of two words, 'v r' and 'n r'; the keys of
\* one word are in NormTok
RECURSIVE expand_synonyms(_)
expand_synonyms(name) ==
    IF name = << >> THEN << >>
    ELSE IF Len(name) >= 2 /\ name[1] = "v" /\ name[2] = "r"
    THEN <<"vnutrennyaya", "rezba">> \o expand_synonyms(SubSeq(name, 3, Len(name)))
    ELSE IF Len(name) >= 2 /\ name[1] = "n" /\ name[2] = "r"
    THEN <<"naruzhnaya", "rezba">> \o expand_synonyms(SubSeq(name, 3, Len(name)))
    ELSE <<name[1]>> \o expand_synonyms(Tail(name))

\* the rules after expand_synonyms, which work inside a word
normalize_words(name) == Flatten([i \in 1..Len(name) |-> NormTok(name[i])])

normalize_name(name) ==
    IF name = << >> THEN << >>
    ELSE normalize_words(expand_synonyms(name))

extract_pipe_size(name) ==
    LET hits == SelectSeq(name, LAMBDA w : TokPipe(w) # NoSize)
    IN  IF name = << >> \/ hits = << >> THEN NoSize
        ELSE LET m == TokPipe(hits[1])
             IN  IF /\ 16 <= m[1] /\ m[1] <= 400
                    /\ 100 <= m[2] /\ m[2] <= 6000
                 THEN m ELSE NoSize

FittingTypeMarkers ==
    {"muft", "zaglush", "revizi", "krestovin", "trojnik", "perehod", "otvod", "sifon"}

extract_fitting_size(name) ==
    LET multi == SelectSeq(name, LAMBDA w : TokFitMulti(w) # NoSize)
        sizes == IF multi = << >> THEN NoSize ELSE TokFitMulti(multi[1])
        numbers == SelectSeq(Flatten([i \in 1..Len(name) |-> TokNums(name[i])]),
                             LAMBDA n : 25 <= n /\ n <= 200)
    IN  IF name = << >> THEN NoSize
        ELSE IF sizes # NoSize /\ \A i \in 1..Len(sizes) : 25 <= sizes[i] /\ sizes[i] <= 200
        THEN sizes
        ELSE IF any_in(name, FittingTypeMarkers) /\ numbers # << >>
        THEN <<numbers[1]>>
        ELSE NoSize

extract_thread_size(name) ==
    LET hits == SelectSeq(name, LAMBDA w : TokThread(w) # NoSize)
    IN  IF hits = << >> THEN NoSize ELSE TokThread(hits[1])

is_coupling_detachable(name) == any_in(name, {"razemn", "amerikank"})

is_reducer(name) == any_in(name, {"perehod", "red"})

(***************************************************************************)
(* The catalog: the rows of the products table.  A product is named by its *)
(* id; Product(id) is its row.                                             *)
(***************************************************************************)
Product(id) ==
    CASE id = "p1" -> [id |-> "p1", sku |-> <<"2","0","2","0","0","1">>,
                       name |-> <<"truba", "sinikon", "110x2000">>,
                       category |-> "kanalizaciya", pack_qty |-> 1]
      [] id = "p2" -> [id |-> "p2", sku |-> <<"2","0","2","0","0","2">>,
                       name |-> <<"truba", "110x3000">>,
                       category |-> "kanalizaciya", pack_qty |-> 1]
      [] id = "p3" -> [id |-> "p3", sku |-> <<"1","0","1","0","0","3">>,
                       name |-> <<"mufta", "32x1in", "n/r">>,
                       category |-> "ppr", pack_qty |-> 10]
      [] id = "p4" -> [id |-> "p4", sku |-> <<"2","0","2","0","0","4">>,
                       name |-> <<"mufta", "32">>,
                       category |-> "kanalizaciya", pack_qty |-> 20]

CatalogRows == <<"p1", "p2", "p3", "p4">>

\* the substrings, among those the source tests for, of a category text
CatMarkers(c) ==
    CASE c = "kanalizaciya" -> {"kanalizac"}
      [] c = "ppr" -> {"ppr"}
      [] OTHER -> {}

(***************************************************************************)
(* backend/services/matching.py: the module-level helpers                  *)
(***************************************************************************)
detect_client_category(name) ==
    LET is_sewer == any_in(name, {"kan", "kanalizac", "santeh"})
        is_gray == contains(name, "ser")
    IN  IF any_in(name, {"pert", "pe-rt", "termostojk"}) THEN "pert"
        ELSE IF any_in(name, {"pnd", "hdpe", "kompress", "cang"}) THEN "pnd"
        ELSE IF any_in(name, {"maloshum", "prestige"}) THEN "prestige"
        ELSE IF is_sewer /\ contains(name, "bel") THEN "prestige"
        ELSE IF any_in(name, {"nar kan", "nar.kan", "naruzhn", "ryzh"}) THEN "outdoor"
        ELSE IF is_gray \/ is_sewer THEN "sewer"
        ELSE IF any_in(name, {"ppr", "ppr-latin", "vodoprovod", "otoplen", " pp ", "pp "})
        THEN "ppr"
        ELSE IF any_in(name, {"armir", "arm.", "arm "}) THEN "ppr"
        ELSE IF any_in(name, {"vn/nr", "vn nr", "pn/nr"}) THEN "ppr"
        ELSE IF contains(name, "bel") /\ ~is_sewer THEN "ppr"
        ELSE None

\* the ordered table of extract_product_type: marker, type
ProductTypeMarkers ==
    << <<"krestovin", "krestovina">>, <<"trojnik", "trojnik">>,
       <<"perehod", "perehodnik">>, <<"red", "perehodnik">>,
       <<"razemn", "mufta">>, <<"otvod", "otvod">>, <<"koleno", "otvod">>,
       <<"ugol", "otvod">>, <<"muft", "mufta">>, <<"zaglush", "zaglushka">>,
       <<"revizi", "reviziya">>, <<"patrub", "patrubok">>, <<"opor", "klipsa">>,
       <<"klips", "klipsa">>, <<"trub", "truba">>, <<"homut", "homut">>,
       <<"kran", "kran">>, <<"filtr", "filtr">>, <<"klapan", "klapan">>,
       <<"sifon", "sifon">> >>

extract_product_type(name) ==
    LET hits == SelectSeq(ProductTypeMarkers, LAMBDA m : contains(name, m[1]))
    IN  IF hits = << >> THEN None ELSE hits[1][2]

extract_angle(name) ==
    LET a == SelectSeq(name, LAMBDA w : TokAngle(w) # 0)
        b == SelectSeq(name, LAMBDA w : TokSlashAngle(w) # 0)
    IN  IF a # << >> THEN TokAngle(a[1])
        ELSE IF b # << >> THEN TokSlashAngle(b[1])
        ELSE 0

normalize_angle(angle) == IF angle = 90 THEN 87 ELSE angle

extract_thread_type(name) ==
    IF any_in(name, {"v/r", "vn.rez", "vn. rez", "vn rez", "vnutr", "(vr)", "vr)", " vr "})
    THEN "vn"
    ELSE IF any_in(name, {"n/r", "nar.rez", "nar. rez", "nar rez", "naruzh", "(nr)", "nr)", " nr "})
    THEN "nar"
    ELSE None

is_eco_product(name) ==
    IF contains(name, "(1.8)") THEN FALSE
    ELSE any_in(name, {"eko", "eko-latin", "(2.2)"})

\* the words of the vocabulary name no clamp (no word holds "homut")
extract_mm_from_clamp(name) == 0

clamp_fits_mm(product_name, target_mm) ==
    LET hits == SelectSeq(product_name, LAMBDA w : TokClampRange(w) # NoSize)
    IN  /\ hits # << >>
        /\ TokClampRange(hits[1])[1] <= target_mm
        /\ target_mm <= TokClampRange(hits[1])[2]

normalize_equal_sizes(size) ==
    IF size = << >> THEN size
    ELSE IF Len(size) >= 2 /\ \A i \in 1..Len(size) : size[i] = size[1]
    THEN <<size[1]>>
    ELSE size

\* a match is [p |-> product id, score |-> ratio]; matches is a sequence
Sku202 == <<"2", "0", "2">>

InCategory(p, client_cat) ==
    LET sku == Product(p).sku
        name == Product(p).name
        cat == CatMarkers(Product(p).category)
    IN  CASE client_cat = "pert" -> startswith(sku, <<"5","0","1">>) \/ contains(name, "pert")
          [] client_cat = "pnd" -> startswith(sku, <<"7","0","4">>) \/ contains(name, "kompress")
          [] client_cat = "prestige" -> "maloshum" \in cat \/ contains(name, "prestige")
          [] client_cat = "outdoor" ->
                 \/ startswith(sku, <<"3","0","3">>) \/ startswith(sku, <<"6","0","4">>)
                 \/ "naruzhn" \in cat \/ contains(name, "nar.kan")
                 \/ contains(name, "riflen")
          [] client_cat = "ppr" -> "ppr" \in cat \/ contains(name, "ppr")
          [] client_cat = "sewer" ->
                 \/ startswith(sku, Sku202)
                 \/ (contains(name, "seryj") /\ ~contains(name, "riflen"))
          [] OTHER ->
                 \/ ("kanalizac" \in cat /\ "maloshum" \notin cat /\ "naruzhn" \notin cat)
                 \/ contains(name, "seryj")

filter_by_category(matches, client_cat) ==
    LET filtered == SelectSeq(matches, LAMBDA m : InCategory(m.p, client_cat))
        sku_202 == SelectSeq(matches, LAMBDA m : startswith(Product(m.p).sku, Sku202))
    IN  IF matches = << >> THEN matches
        ELSE IF client_cat = "sewer" THEN filtered
        ELSE IF client_cat \notin {"pert", "pnd", "prestige", "outdoor", "ppr"}
                /\ sku_202 # << >>
        THEN sku_202
        ELSE IF filtered # << >> THEN filtered ELSE matches

filter_by_thread(matches, client_thread) ==
    LET filtered == SelectSeq(matches,
                        LAMBDA m : extract_thread_type(Product(m.p).name) = client_thread)
    IN  IF matches = << >> \/ client_thread = None \/ Len(matches) <= 1 THEN matches
        ELSE IF filtered # << >> THEN filtered ELSE matches

filter_by_fitting_size(matches, client_size) ==
    LET fit(m) == extract_fitting_size(Product(m.p).name)
        exact == SelectSeq(matches, LAMBDA m : fit(m) = client_size)
        swapped == SelectSeq(matches, LAMBDA m :
                       /\ Len(fit(m)) = 3
                       /\ fit(m)[2] = client_size[2]
                       /\ {fit(m)[1], fit(m)[3]} = {client_size[1], client_size[3]})
        first == SelectSeq(matches, LAMBDA m :
                       fit(m) # NoSize /\ fit(m)[1] = client_size[1])
        single_only == SelectSeq(matches, LAMBDA m :
                       Len(fit(m)) = 1 /\ fit(m)[1] = client_size[1])
        same_size == SelectSeq(matches, LAMBDA m :
                       fit(m) = <<client_size[1], client_size[1]>>)
    IN  IF matches = << >> \/ client_size = NoSize \/ Len(matches) <= 1 THEN matches
        ELSE IF Len(client_size) = 3
        THEN IF exact # << >> THEN exact
             ELSE IF swapped # << >> THEN swapped ELSE matches
        ELSE IF Len(client_size) = 2
        THEN IF exact # << >> THEN exact
             ELSE IF first # << >> THEN first ELSE matches
        ELSE IF single_only # << >> THEN single_only
        ELSE IF same_size # << >> THEN same_size
        ELSE IF first # << >> THEN first ELSE matches

\* the product name holds the text mm x inches" (with x, U+00D7, * or -)
NameHasThreadText(name, client_thread) ==
    \E i \in 1..Len(name) : TokThread(name[i]) = client_thread

filter_by_thread_size(matches, client_thread) ==
    LET filtered == SelectSeq(matches,
                        LAMBDA m : NameHasThreadText(Product(m.p).name, client_thread))
    IN  IF matches = << >> \/ client_thread = NoSize \/ Len(matches) <= 1 THEN matches
        ELSE IF filtered # << >> THEN filtered ELSE matches

\* list.sort(key=score, reverse=True): stable, highest score first
RECURSIVE sort_by_score(_)
sort_by_score(ms) ==
    IF ms = << >> THEN << >>
    ELSE LET rest == sort_by_score(Tail(ms))
             h == Head(ms)
         IN  SelectSeq(rest, LAMBDA m : m.score > h.score)
             \o <<h>>
             \o SelectSeq(rest, LAMBDA m : m.score <= h.score)

(***************************************************************************)
(* backend/config.py: Settings (confidences in hundredths of a percent)    *)
(***************************************************************************)
fuzzy_threshold == 70
confidence_exact_sku == 10000
confidence_exact_name == 9500
confidence_fuzzy_sku == 9000
confidence_fuzzy_name == 8000
min_confidence_auto == 8000

(***************************************************************************)
(* backend/models/schemas.py: MatchResult.  product_sku and product_name   *)
(* are the sku and name of Product(product_id).  NoResult stands for "no   *)
(* MatchResult yet".                                                       *)
(***************************************************************************)
MatchResult(product, confidence, match_type, needs_review) ==
    [product_id |-> product, confidence |-> confidence, match_type |-> match_type,
     needs_review |-> needs_review, pack_qty |-> Product(product).pack_qty]

\* not_found without the review flag
not_found_unreviewed ==
    [product_id |-> None, confidence |-> 0, match_type |-> "not_found",
     needs_review |-> FALSE, pack_qty |-> 1]

not_found ==
    [product_id |-> None, confidence |-> 0, match_type |-> "not_found",
     needs_review |-> TRUE, pack_qty |-> 1]

NoResult ==
    [product_id |-> None, confidence |-> 0, match_type |-> "none",
     needs_review |-> FALSE, pack_qty |-> 0]

\* next((p for p in products if ...), None)
FirstWhere(products, P(_)) ==
    LET hits == SelectSeq(products, P)
    IN  IF hits = << >> THEN None ELSE hits[1]

(***************************************************************************)
(* backend/services/llm_matcher.py: LLMMatcher.match.  A reply of the API  *)
(* is [kind, sku, confidence]: kind "fail" (status other than 200, timeout *)
(* or any other exception), "badjson" (the content is not JSON), "notdict" *)
(* (JSON that is no object) or "dict".  sku << >> is null or missing;      *)
(* confidence is [num, val]: a number val, or (num FALSE) a value float()  *)
(* rejects.  None of match is NoReply.                                     *)
(***************************************************************************)
NoReply == [sku |-> << >>, confidence |-> 0, answered |-> FALSE]

\* float(confidence) if confidence else 0, except (TypeError, ValueError): 0
to_float(confidence) == IF confidence.num THEN confidence.val ELSE 0

\* the confidence left as the LLM gave it
unclamped_confidence(c) == c

\* max(0, min(100, confidence))
clamp_confidence(c) == Max2(0, Min2(10000, c))

\* len(query.strip())
query_length(query) ==
    IF query = << >> THEN 0
    ELSE LET RECURSIVE sum(_)
             sum(i) == IF i = 0 THEN 0 ELSE TokLen(query[i]) + sum(i - 1)
         IN  sum(Len(query)) + Len(query) - 1

LLMMatcher_match(products_cache_set, query, reply) ==
    IF ~products_cache_set THEN NoReply
    ELSE IF query_length(query) < 2 THEN NoReply
    ELSE IF reply.kind = "fail" THEN NoReply
    ELSE IF reply.kind = "badjson"
    THEN [sku |-> << >>, confidence |-> 0, answered |-> TRUE]
    ELSE IF reply.kind = "notdict" THEN NoReply
    ELSE [sku |-> reply.sku,
          confidence |-> clamp_confidence(to_float(reply.confidence)),
          answered |-> TRUE]

(***************************************************************************)
(* MatchingService.match_item, levels 1 to 4.  Each returns a MatchResult  *)
(* or NoResult.                                                            *)
(***************************************************************************)
\* level 1 with the comparison of the SKUs never succeeding
Level1_skipped(products, norm_sku) == NoResult

Level1(products, norm_sku) ==
    LET product == FirstWhere(products,
                       LAMBDA p : normalize_sku(Product(p).sku) = norm_sku)
    IN  IF product # None
        THEN MatchResult(product, confidence_exact_sku, "exact_sku", FALSE)
        ELSE NoResult

Level2(products, norm_name) ==
    LET product == FirstWhere(products,
                       LAMBDA p : normalize_name(Product(p).name) = norm_name)
    IN  IF norm_name # << >> /\ product # None
        THEN MatchResult(product, confidence_exact_name, "exact_name", FALSE)
        ELSE NoResult

\* level 3 left out
Level3_skipped(products, mappings, norm_sku) == NoResult

\* mappings is the client's dict: normalized client SKU -> mapping row
Level3(products, mappings, norm_sku) ==
    IF norm_sku \in DOMAIN mappings
    THEN LET mapping == mappings[norm_sku]
             product == FirstWhere(products, LAMBDA p : p = mapping.product_id)
         IN  IF product # None
             THEN MatchResult(product, confidence_exact_sku, "cached_mapping", FALSE)
             ELSE NoResult
    ELSE NoResult

RECURSIVE best_sku(_, _, _, _)
best_sku(products, norm_sku, best_sku_match, best_sku_ratio) ==
    IF products = << >>
    THEN [p |-> best_sku_match, ratio |-> best_sku_ratio]
    ELSE LET ratio == fuzz_ratio(norm_sku, normalize_sku(Product(Head(products)).sku))
         IN  IF ratio > best_sku_ratio /\ ratio >= 90
             THEN best_sku(Tail(products), norm_sku, Head(products), ratio)
             ELSE best_sku(Tail(products), norm_sku, best_sku_match, best_sku_ratio)

\* level 4 giving up with not_found when no SKU is close
Level4_gives_up(products, norm_sku) ==
    LET best == best_sku(products, norm_sku, None, 0)
    IN  IF best.p # None /\ best.ratio >= 90
        THEN MatchResult(best.p, (confidence_fuzzy_sku * best.ratio) \div 100,
                         "fuzzy_sku", best.ratio < 95)
        ELSE not_found

Level4(products, norm_sku) ==
    LET best == best_sku(products, norm_sku, None, 0)
    IN  IF best.p # None /\ best.ratio >= 90
        THEN MatchResult(best.p, (confidence_fuzzy_sku * best.ratio) \div 100,
                         "fuzzy_sku", best.ratio < 95)
        ELSE NoResult

(***************************************************************************)
(* MatchingService.match_item, level 5: full scan with fuzzy scoring and   *)
(* filters.                                                                *)
(***************************************************************************)
CRITICAL_TYPES ==
    {"kran", "mufta", "otvod", "trojnik", "perehodnik", "zaglushka", "reviziya",
     "krestovina"}

\* the scores the fuzzy library gives to two names neither of which holds
\* all the words of the other
LibScores == {60, 80}

TokenSet(name) == {name[i] : i \in 1..Len(name)}

SubsetRelated(a, b) == TokenSet(a) \subseteq TokenSet(b) \/ TokenSet(b) \subseteq TokenSet(a)

\* the products whose score against norm_name the library decides
NeedsLib(products, norm_name) ==
    {products[i] : i \in {j \in 1..Len(products) :
        ~SubsetRelated(norm_name, normalize_name(Product(products[j]).name))}}

\* max(fuzz.token_sort_ratio(a, b), fuzz.token_set_ratio(a, b)): 100 when the
\* words of one name are among the words of the other (token_set_ratio
\* compares the common words with themselves), else what the library says
name_ratio(norm_name, p, lib) ==
    IF SubsetRelated(norm_name, normalize_name(Product(p).name)) THEN 100 ELSE lib[p]

pipe_size_gate(client_name, p) ==
    LET client_size == extract_pipe_size(client_name)
        product_size == extract_pipe_size(Product(p).name)
    IN  ~(client_size # NoSize /\ product_size # NoSize /\ product_size # client_size)

thread_size_gate(client_name, p) ==
    LET client_thread_size == extract_thread_size(client_name)
        product_thread == extract_thread_size(Product(p).name)
    IN  ~(/\ client_thread_size # NoSize
          /\ product_thread # NoSize
          /\ product_thread # client_thread_size)

fitting_size_gate(client_name, p) ==
    LET client_fitting_size == extract_fitting_size(client_name)
        product_fitting == extract_fitting_size(Product(p).name)
        norm_client == normalize_equal_sizes(client_fitting_size)
        norm_product == normalize_equal_sizes(product_fitting)
    IN  ~(/\ client_fitting_size # NoSize
          /\ product_fitting # NoSize
          /\ IF Len(norm_client) = 1
             THEN norm_product[1] # norm_client[1]
             ELSE norm_product # norm_client)

\* matches.append((product, ratio)) for each product kept
with_ratio(kept, norm_name, lib) ==
    [i \in 1..Len(kept) |-> [p |-> kept[i], score |-> name_ratio(norm_name, kept[i], lib)]]

\* the loop over search_products: the matches above the threshold
scored_matches(products, client_name, norm_name, lib) ==
    with_ratio(SelectSeq(products, LAMBDA p :
                   /\ pipe_size_gate(client_name, p)
                   /\ thread_size_gate(client_name, p)
                   /\ fitting_size_gate(client_name, p)
                   /\ name_ratio(norm_name, p, lib) >= fuzzy_threshold),
               norm_name, lib)

type_filter(matches, client_type) ==
    LET type_filtered == SelectSeq(matches,
                             LAMBDA m : extract_product_type(Product(m.p).name) = client_type)
    IN  IF client_type = None THEN matches
        ELSE IF type_filtered # << >> THEN type_filtered
        ELSE IF client_type \in CRITICAL_TYPES THEN << >>
        ELSE matches

angle_filter(matches, client_angle) ==
    LET normalized_angle == normalize_angle(client_angle)
        angle_filtered == SelectSeq(matches,
                              LAMBDA m : extract_angle(Product(m.p).name) = normalized_angle)
    IN  IF client_angle = 0 \/ normalized_angle = 0 THEN matches
        ELSE IF angle_filtered # << >> THEN angle_filtered
        ELSE matches

category_filter(matches, client_cat) ==
    LET effective_cat == IF client_cat # None THEN client_cat ELSE "sewer"
        cat_filtered == filter_by_category(matches, effective_cat)
    IN  IF cat_filtered # << >> THEN cat_filtered ELSE matches

detachable_filter(matches, client_is_detachable) ==
    LET det_filtered == SelectSeq(matches,
                            LAMBDA m : is_coupling_detachable(Product(m.p).name))
    IN  IF client_is_detachable /\ det_filtered # << >> THEN det_filtered ELSE matches

reducer_filter(matches, client_is_reducer) ==
    LET red_filtered == SelectSeq(matches, LAMBDA m : is_reducer(Product(m.p).name))
    IN  IF client_is_reducer /\ red_filtered # << >> THEN red_filtered ELSE matches

\* the filters applied to all matches before the sort
critical_filters(matches, client_name) ==
    reducer_filter(
        detachable_filter(
            category_filter(
                angle_filter(
                    type_filter(matches, extract_product_type(client_name)),
                    extract_angle(client_name)),
                detect_client_category(client_name)),
            is_coupling_detachable(client_name)),
        is_reducer(client_name))

clamp_filter(top_matches, clamp_mm) ==
    LET fitting == SelectSeq(top_matches,
                       LAMBDA m : clamp_fits_mm(Product(m.p).name, clamp_mm))
    IN  IF clamp_mm # 0 /\ Len(top_matches) > 1 /\ fitting # << >>
        THEN fitting ELSE top_matches

eco_filter(top_matches, client_wants_eco) ==
    LET non_eco == SelectSeq(top_matches, LAMBDA m : ~is_eco_product(Product(m.p).name))
    IN  IF ~client_wants_eco /\ Len(top_matches) > 1 /\ non_eco # << >>
        THEN non_eco ELSE top_matches

\* the filters applied to the matches within 2 points of the best
top_filters(matches, client_name) ==
    eco_filter(
        clamp_filter(
            filter_by_thread_size(
                filter_by_fitting_size(
                    filter_by_thread(
                        SelectSeq(matches, LAMBDA m : m.score >= matches[1].score - 2),
                        extract_thread_type(client_name)),
                    extract_fitting_size(client_name)),
                extract_thread_size(client_name)),
            extract_mm_from_clamp(client_name)),
        is_eco_product(client_name))

\* conf of the best fuzzy match
fuzzy_name_confidence(best_ratio, n_matches, client_wants_eco) ==
    LET conf == (confidence_fuzzy_name * best_ratio) \div 100
    IN  IF n_matches > 1 /\ ~client_wants_eco THEN Min2(conf + 500, 9500) ELSE conf

(***************************************************************************)
(* Level 5 as a whole.  outcome: "skipped" (no name), "no_candidates" (no  *)
(* match above the threshold), "IndexError" (matches[0] of an empty list,  *)
(* line 804), "guard" (every top match filtered out) or "candidate"        *)
(* (best_match with confidence conf).  scored is the list before filters.  *)
(***************************************************************************)
hybrid_outcome(norm_name, scored, matches, top_matches, client_wants_eco) ==
    IF norm_name = << >>
    THEN [outcome |-> "skipped", scored |-> << >>, best_match |-> None, conf |-> 0]
    ELSE IF scored = << >>
    THEN [outcome |-> "no_candidates", scored |-> << >>, best_match |-> None, conf |-> 0]
    ELSE IF matches = << >>
    THEN [outcome |-> "IndexError", scored |-> scored, best_match |-> None, conf |-> 0]
    ELSE IF top_matches = << >>
    THEN [outcome |-> "guard", scored |-> scored, best_match |-> None, conf |-> 0]
    ELSE [outcome |-> "candidate", scored |-> scored,
          best_match |-> top_matches[1].p,
          conf |-> fuzzy_name_confidence(top_matches[1].score, Len(matches),
                                         client_wants_eco)]

\* sort, then the top filters (not reached with an empty list: line 804 raises)
sorted_and_top(norm_name, scored, matches, client_name) ==
    hybrid_outcome(norm_name, scored, matches,
                   IF matches = << >> THEN << >> ELSE top_filters(matches, client_name),
                   is_eco_product(client_name))

filtered_and_sorted(norm_name, scored, client_name) ==
    sorted_and_top(norm_name, scored,
                   sort_by_score(critical_filters(scored, client_name)), client_name)

Level5(products, client_name, norm_name, lib) ==
    filtered_and_sorted(norm_name,
                        scored_matches(products, client_name, norm_name, lib),
                        client_name)

fuzzy_name_result(hybrid) ==
    MatchResult(hybrid.best_match, hybrid.conf, "fuzzy_name",
                hybrid.conf < min_confidence_auto)

\* llm_product of an LLM answer: the catalog row with exactly that SKU
llm_product_of(products, llm_result) ==
    IF llm_result.answered /\ llm_result.sku # << >>
    THEN FirstWhere(products, LAMBDA p : Product(p).sku = llm_result.sku)
    ELSE None

\* "if product_x and product_x != client_x: reject", for sizes and for types
size_agrees(client_size, product_size) ==
    ~(client_size # NoSize /\ product_size # NoSize /\ product_size # client_size)

type_agrees(client_type, product_type) ==
    ~(/\ client_type # None /\ client_type \in CRITICAL_TYPES
      /\ product_type # None /\ product_type # client_type)

(***************************************************************************)
(* The GUARD branch (lines 831-857): the LLM answer is taken unvalidated.  *)
(***************************************************************************)
guard_fallback(products, llm_result) ==
    LET llm_product == llm_product_of(products, llm_result)
    IN  IF llm_product # None
        THEN MatchResult(llm_product, llm_result.confidence, "llm_match", TRUE)
        ELSE not_found

\* level 6 without the comparison of the two confidences
Level6_any_confidence(products, client_name, hybrid, llm_result) ==
    LET found == llm_product_of(products, llm_result)
        valid == /\ found # None
                 /\ size_agrees(extract_fitting_size(client_name),
                                extract_fitting_size(Product(found).name))
                 /\ type_agrees(extract_product_type(client_name),
                                extract_product_type(Product(found).name))
    IN  IF hybrid.outcome = "guard" THEN guard_fallback(products, llm_result)
        ELSE IF llm_result.answered /\ llm_result.sku # << >> /\ valid
        THEN MatchResult(found, llm_result.confidence, "llm_match",
                         llm_result.confidence < 8000)
        ELSE fuzzy_name_result(hybrid)

(***************************************************************************)
(* Level 6 (lines 864-910): the LLM is asked about a fuzzy match of        *)
(* confidence below 75 and its answer replaces the match when its          *)
(* confidence is greater and the product passes the fitting-size and type  *)
(* validation.                                                             *)
(***************************************************************************)
Level6(products, client_name, hybrid, llm_result) ==
    LET llm_conf == llm_result.confidence
        found == llm_product_of(products, llm_result)
        valid == /\ found # None
                 /\ size_agrees(extract_fitting_size(client_name),
                                extract_fitting_size(Product(found).name))
                 /\ type_agrees(extract_product_type(client_name),
                                extract_product_type(Product(found).name))
    IN  IF hybrid.outcome = "guard" THEN guard_fallback(products, llm_result)
        ELSE IF llm_result.answered /\ llm_result.sku # << >>
                /\ llm_conf > hybrid.conf /\ valid
        THEN MatchResult(found, llm_conf, "llm_match", llm_conf < 8000)
        ELSE fuzzy_name_result(hybrid)

(***************************************************************************)
(* Level 7 (lines 912-984): LLM matching with post-validation of pipe      *)
(* size, fitting size, thread size and type; else not_found.               *)
(***************************************************************************)
Level7(products, client_name, llm_result) ==
    LET found == llm_product_of(products, llm_result)
        valid == /\ found # None
                 /\ size_agrees(extract_pipe_size(client_name),
                                extract_pipe_size(Product(found).name))
                 /\ size_agrees(extract_fitting_size(client_name),
                                extract_fitting_size(Product(found).name))
                 /\ size_agrees(extract_thread_size(client_name),
                                extract_thread_size(Product(found).name))
                 /\ type_agrees(extract_product_type(client_name),
                                extract_product_type(Product(found).name))
        conf == llm_result.confidence
    IN  IF valid
        THEN MatchResult(found, conf, "llm_match", conf < 8000)
        ELSE not_found

(***************************************************************************)
(* The database.  ProductsTable is the products table; MappingsTable the   *)
(* mappings table.                                                         *)
(***************************************************************************)
ProductsTable == CatalogRows

MappingsTable ==
    << [client_id |-> "c1", client_sku |-> <<"c", "-", "7">>,
        product_id |-> "p2", verified |-> TRUE],
       [client_id |-> "c1", client_sku |-> <<"C", "8">>,
        product_id |-> "p9", verified |-> TRUE],
       [client_id |-> "c1", client_sku |-> <<"Z", "Z">>,
        product_id |-> "p3", verified |-> FALSE] >>

\* the rows of the client whether verified or not
rows_of_client(table, client_id) ==
    SelectSeq(table, LAMBDA m : m.client_id = client_id)

\* .eq('client_id', ...).eq('verified', True) on the rows of the table
verified_rows(table, client_id) ==
    SelectSeq(table, LAMBDA m : m.client_id = client_id /\ m.verified)

\* the dict comprehension: the last row of a normalized SKU wins
mapping_dict(rows) ==
    LET keys == {normalize_sku(rows[i].client_sku) : i \in 1..Len(rows)}
        last(k) == CHOOSE i \in 1..Len(rows) :
                       /\ normalize_sku(rows[i].client_sku) = k
                       /\ \A j \in 1..Len(rows) :
                              normalize_sku(rows[j].client_sku) = k => j <= i
    IN  [k \in keys |-> rows[last(k)]]

\* the verified mappings of a client in the table as it is first
client_mappings(client_id) == mapping_dict(verified_rows(MappingsTable, client_id))

NoRow == [client_id |-> None, client_sku |-> << >>, product_id |-> None,
          verified |-> FALSE]

\* upsert(data, on_conflict='client_id,client_sku')
Upsert(table, row) ==
    LET same(m) == m.client_id = row.client_id /\ m.client_sku = row.client_sku
    IN  IF \E i \in 1..Len(table) : same(table[i])
        THEN [i \in 1..Len(table) |-> IF same(table[i]) THEN row ELSE table[i]]
        ELSE Append(table, row)

(***************************************************************************)
(* The requests and the state.                                             *)
(***************************************************************************)
NumCallers == 2
MaxNameLen == 2

Callers == 1..NumCallers

ClientIds == {None, "c1"}

\* "", "202-001", "20201", "c-7", "c8"
SkuInputs ==
    { << >>, <<"2", "0", "2", "-", "0", "0", "1">>, <<"2", "0", "2", "0", "1">>,
      <<"c", "-", "7">>, <<"c", "8">> }

\* "truba 110x3000" in the SKU column, as an order file without a name
\* column gives it
TextSku == <<"t", "r", "u", "b", "a", " ", "1", "1", "0", "x", "3", "0", "0", "0">>

NameInputs == UNION {[1..k -> Words] : k \in 0..MaxNameLen}

\* every name with no SKU and no client; every SKU and client with no name
\* or a name that matches no product exactly; the mapped SKUs with the exact
\* name of the mapped product
\* every catalog row asked for by its own SKU and name; a text in the SKU
\* column with no name
Requests ==
    [client_id : {None}, client_sku : {<< >>}, client_name : NameInputs]
    \cup [client_id : ClientIds, client_sku : SkuInputs,
          client_name : {<< >>, <<"truba", "z">>, <<"z">>}]
    \cup [client_id : ClientIds, client_sku : {<<"c", "-", "7">>, <<"c", "8">>},
          client_name : {<<"truba", "110x3000">>}]
    \cup { [client_id |-> None, client_sku |-> Product(CatalogRows[i]).sku,
             client_name |-> Product(CatalogRows[i]).name] :
                i \in 1..Len(CatalogRows) }
    \cup {[client_id |-> None, client_sku |-> TextSku, client_name |-> << >>]}

NoRequest == [client_id |-> None, client_sku |-> << >>, client_name |-> << >>]

RawConfidences ==
    { [num |-> TRUE, val |-> 0 - 5000], [num |-> TRUE, val |-> 7000],
      [num |-> TRUE, val |-> 15000], [num |-> FALSE, val |-> 0] }

LLMReplies ==
    { [kind |-> k, sku |-> << >>, confidence |-> [num |-> TRUE, val |-> 0]] :
          k \in {"fail", "badjson", "notdict"} }
    \cup [kind : {"dict"},
          sku : {<< >>, <<"9", "9", "9">>} \cup {Product(ProductsTable[i]).sku :
                                                     i \in 1..Len(ProductsTable)},
          confidence : RawConfidences]

StageOrder == <<"ExactSku", "ExactName", "CachedMapping", "FuzzySku", "Hybrid", "LLM">>

StatKeys ==
    {"total", "exact_sku", "exact_name", "cached_mapping", "fuzzy_sku", "fuzzy_name",
     "llm_match", "not_found", "total_confidence"}

NoneCache == [loaded |-> FALSE, rows |-> << >>]

NoHit == [stage |-> None, product_id |-> None, confidence |-> 0]

NoHybrid == [outcome |-> "none", scored |-> << >>, best_match |-> None, conf |-> 0]

VARIABLES
    products_cache,      \* self._products_cache: NoneCache, or the rows loaded
    mappings_cache,      \* self._mappings_cache: client key -> dict
    mappings_lock,       \* self._mappings_lock: the caller holding it, 0 if free
    llm_products_cache,  \* LLMMatcher.products_cache is set and not empty
    openrouter_api_key,  \* settings.openrouter_api_key is set
    stats,               \* self._stats
    db_queries,          \* how many times the products table has been read
    pc,                  \* where each caller is in match_item
    request,             \* the arguments of each caller's match_item
    products,            \* local products
    mappings,            \* local mappings
    hybrid,              \* the outcome of level 5
    llm_result,          \* the last answer of LLMMatcher.match
    result,              \* the MatchResult built, returned when pc is "done"
    error,               \* the exception that left match_item, None if none
    evaluated,           \* the stages evaluated so far, in order
    first_hit,           \* the first stage that yielded a match, and the match
    stats_seen,          \* the statistics read by _update_stats
    mappings_table,      \* the rows of the mappings table
    mappings_response,   \* response.data of each caller's mappings query
    token_ratios,        \* what the fuzzy library has answered so far
    op,                  \* what each caller calls on the service
    items,               \* match_order_items: the items
    results,             \* match_order_items: results
    saving,              \* save_mapping: the row being written
    mapping_queries,     \* per client: the queries of the mappings table since
                         \* the client's cache entry was last dropped
    embedding,           \* EmbeddingMatcher.search: the locals of each caller
    processed_updates,   \* bot.main._processed_updates, in insertion order
    clock,               \* time.time(), in seconds
    background_tasks,    \* the updates webhook_handler handed to add_task
    response             \* the last answer of webhook_handler

vars ==
    <<products_cache, mappings_cache, mappings_lock, llm_products_cache,
      openrouter_api_key, stats, db_queries, pc, request, products, mappings, hybrid,
      llm_result, result, error, evaluated, first_hit, stats_seen, mappings_table,
      mappings_response, token_ratios, op, items, results, saving,
      mapping_queries, embedding, processed_updates, clock, background_tasks,
      response>>

shared == <<products_cache, mappings_cache, mappings_lock, llm_products_cache, stats,
            db_queries>>

outcome_vars == <<hybrid, llm_result, result, error, evaluated, first_hit>>

bot_vars == <<processed_updates, clock, background_tasks, response>>

other_vars == <<embedding, bot_vars>>

ext_vars == <<mapping_queries, other_vars>>

call_vars == <<mappings_table, mappings_response, op, items, results, saving,
               ext_vars>>

\* MatchingService.__init__, the database and the fuzzy library
InitService ==
    /\ products_cache = NoneCache
    /\ mappings_cache = << >>
    /\ mappings_lock = 0
    /\ llm_products_cache = FALSE
    /\ openrouter_api_key \in BOOLEAN
    /\ stats = [k \in StatKeys |-> 0]
    /\ db_queries = 0
    /\ mappings_table = MappingsTable
    /\ token_ratios = {}
    /\ mapping_queries = [c \in ClientIds |-> 0]

\* no search of the embedding index under way
NoSearch == [attempt |-> 0, last |-> None, matches |-> << >>, candidates |-> << >>]

\* the locals of every caller before its first call
\* no webhook call answered yet
NoResponse == [calls |-> 0, update_id |-> 0, ok |-> FALSE, dispatched |-> FALSE]

\* bot/main.py at import: the empty OrderedDict (31)
InitBot ==
    /\ processed_updates = << >>
    /\ clock = 0
    /\ background_tasks = << >>
    /\ response = NoResponse

InitLocals ==
    /\ InitBot
    /\ embedding = [t \in Callers |-> NoSearch]
    /\ products = [t \in Callers |-> NoneCache]
    /\ mappings = [t \in Callers |-> << >>]
    /\ hybrid = [t \in Callers |-> NoHybrid]
    /\ llm_result = [t \in Callers |-> NoReply]
    /\ result = [t \in Callers |-> NoResult]
    /\ error = [t \in Callers |-> None]
    /\ evaluated = [t \in Callers |-> << >>]
    /\ first_hit = [t \in Callers |-> NoHit]
    /\ stats_seen = [t \in Callers |-> [k \in StatKeys |-> 0]]
    /\ mappings_response = [t \in Callers |-> << >>]
    /\ results = [t \in Callers |-> << >>]

\* the callers about to call match_item
InitWith(active, reqs1, reqs2) ==
    /\ InitService
    /\ InitLocals
    /\ pc = [t \in Callers |-> IF t \in active THEN "start" ELSE "off"]
    /\ \E r1 \in reqs1, r2 \in reqs2 :
           request = [t \in Callers |-> IF t = 1 THEN r1 ELSE r2]
    /\ op = [t \in Callers |-> "match_item"]
    /\ items = [t \in Callers |-> << >>]
    /\ saving = [t \in Callers |-> NoRow]

norm_sku(t) == normalize_sku(request[t].client_sku)

\* the name normalized only until a first call has been counted
norm_name_after_first(t) ==
    IF stats["total"] > 0 THEN << >> ELSE normalize_name(request[t].client_name)

norm_name(t) == normalize_name(request[t].client_name)

(***************************************************************************)
(* _load_products (lines 529-544): check, query and store, return.         *)
(***************************************************************************)
load_check(t) ==
    /\ pc[t] = "start"
    /\ pc' = [pc EXCEPT ![t] = IF ~products_cache.loaded THEN "load_query"
                               ELSE "load_return"]
    /\ UNCHANGED <<shared, openrouter_api_key, request, products, mappings,
                   outcome_vars, stats_seen>>
    /\ UNCHANGED <<call_vars, token_ratios>>

load_query(t) ==
    /\ pc[t] = "load_query"
    /\ \/ /\ products_cache' = [loaded |-> TRUE, rows |-> ProductsTable]
          /\ db_queries' = db_queries + 1
          /\ pc' = [pc EXCEPT ![t] = "load_return"]
          /\ error' = error
       \/ /\ error' = [error EXCEPT ![t] = "catalog_unavailable"]
          /\ pc' = [pc EXCEPT ![t] = "raised"]
          /\ UNCHANGED <<products_cache, db_queries>>
    /\ UNCHANGED <<mappings_cache, mappings_lock, llm_products_cache, stats,
                   openrouter_api_key, request, products, mappings, hybrid, llm_result,
                   result, evaluated, first_hit, stats_seen>>
    /\ UNCHANGED <<call_vars, token_ratios>>

load_return(t) ==
    /\ pc[t] = "load_return"
    /\ products' = [products EXCEPT ![t] = products_cache]
    /\ pc' = [pc EXCEPT ![t] = "map_enter"]
    /\ UNCHANGED <<shared, openrouter_api_key, request, mappings, outcome_vars,
                   stats_seen>>
    /\ UNCHANGED <<call_vars, token_ratios>>

(***************************************************************************)
(* _load_client_mappings (lines 546-563)                                   *)
(***************************************************************************)
\* _load_client_mappings entered without waiting for the lock
map_enter_unlocked(t) ==
    /\ pc[t] = "map_enter"
    /\ IF request[t].client_id = None
       THEN /\ mappings' = [mappings EXCEPT ![t] = << >>]
            /\ pc' = [pc EXCEPT ![t] = "L1"]
            /\ UNCHANGED mappings_lock
       ELSE /\ mappings_lock' = t
            /\ pc' = [pc EXCEPT ![t] = "map_locked"]
            /\ UNCHANGED mappings
    /\ UNCHANGED <<products_cache, mappings_cache, llm_products_cache, stats,
                   db_queries, openrouter_api_key, request, products, outcome_vars,
                   stats_seen>>
    /\ UNCHANGED <<call_vars, token_ratios>>

map_enter(t) ==
    /\ pc[t] = "map_enter"
    /\ IF request[t].client_id = None
       THEN /\ mappings' = [mappings EXCEPT ![t] = << >>]
            /\ pc' = [pc EXCEPT ![t] = "L1"]
            /\ UNCHANGED mappings_lock
       ELSE /\ mappings_lock = 0
            /\ mappings_lock' = t
            /\ pc' = [pc EXCEPT ![t] = "map_locked"]
            /\ UNCHANGED mappings
    /\ UNCHANGED <<products_cache, mappings_cache, llm_products_cache, stats,
                   db_queries, openrouter_api_key, request, products, outcome_vars,
                   stats_seen>>
    /\ UNCHANGED <<call_vars, token_ratios>>

\* under the lock: the cache test (553) and the query (554-558)
map_locked(t) ==
    LET client_key == request[t].client_id
    IN  /\ pc[t] = "map_locked"
        /\ IF client_key \in DOMAIN mappings_cache
           THEN /\ pc' = [pc EXCEPT ![t] = "map_return"]
                /\ UNCHANGED <<mappings_response, mapping_queries>>
           ELSE /\ mappings_response' =
                       [mappings_response EXCEPT ![t] =
                           verified_rows(mappings_table, client_key)]
                /\ mapping_queries' =
                       [mapping_queries EXCEPT ![client_key] = @ + 1]
                /\ pc' = [pc EXCEPT ![t] = "map_store"]
        /\ UNCHANGED <<shared, openrouter_api_key, request, products, mappings,
                       outcome_vars, stats_seen, mappings_table, token_ratios, op,
                       items, results, saving, other_vars>>

\* under the lock: the dict is stored under the client's key (559-562)
map_store(t) ==
    LET client_key == request[t].client_id
    IN  /\ pc[t] = "map_store"
        /\ mappings_cache' =
               [k \in DOMAIN mappings_cache \cup {client_key} |->
                   IF k = client_key THEN mapping_dict(mappings_response[t])
                   ELSE mappings_cache[k]]
        /\ pc' = [pc EXCEPT ![t] = "map_return"]
        /\ UNCHANGED <<products_cache, mappings_lock, llm_products_cache, stats,
                       db_queries, openrouter_api_key, request, products, mappings,
                       outcome_vars, stats_seen, call_vars, token_ratios>>

\* return self._mappings_cache[client_key] (563), leaving the with block
map_return(t) ==
    LET client_key == request[t].client_id
    IN  /\ pc[t] = "map_return"
        /\ mappings_lock' = 0
        /\ IF client_key \in DOMAIN mappings_cache
           THEN /\ mappings' = [mappings EXCEPT ![t] = mappings_cache[client_key]]
                /\ pc' = [pc EXCEPT ![t] = "L1"]
                /\ UNCHANGED error
           ELSE /\ error' = [error EXCEPT ![t] = "KeyError"]
                /\ pc' = [pc EXCEPT ![t] = "raised"]
                /\ UNCHANGED mappings
        /\ UNCHANGED <<products_cache, mappings_cache, llm_products_cache, stats,
                       db_queries, openrouter_api_key, request, products, hybrid,
                       llm_result, result, evaluated, first_hit, stats_seen, call_vars,
                       token_ratios>>

(***************************************************************************)
(* match_item, one action per level.  A level that yields a MatchResult    *)
(* passes it to _finalize_match.                                           *)
(***************************************************************************)
hit(stage, res) == [stage |-> stage, product_id |-> res.product_id,
                    confidence |-> res.confidence]

\* levels 1 to 4: evaluate the stage; return its match or go on
stage_step(t, here, stage, res, next) ==
    /\ pc[t] = here
    /\ evaluated' = [evaluated EXCEPT ![t] = Append(@, stage)]
    /\ IF res # NoResult
       THEN /\ result' = [result EXCEPT ![t] = res]
            /\ first_hit' = [first_hit EXCEPT ![t] = hit(stage, res)]
            /\ pc' = [pc EXCEPT ![t] = "stats_load"]
       ELSE /\ pc' = [pc EXCEPT ![t] = next]
            /\ UNCHANGED <<result, first_hit>>
    /\ UNCHANGED <<shared, openrouter_api_key, request, products, mappings, hybrid,
                   llm_result, error, stats_seen>>
    /\ UNCHANGED <<call_vars, token_ratios>>

\* level 1 iterates over the catalog _load_products returned (610)
L1(t) ==
    /\ products[t].loaded
    /\ stage_step(t, "L1", "ExactSku", Level1(products[t].rows, norm_sku(t)), "L2")

\* for product in products (610) when _load_products returned None: TypeError
L1_unset(t) ==
    /\ pc[t] = "L1"
    /\ ~products[t].loaded
    /\ error' = [error EXCEPT ![t] = "TypeError"]
    /\ pc' = [pc EXCEPT ![t] = "raised"]
    /\ UNCHANGED <<shared, openrouter_api_key, request, products, mappings, hybrid,
                   llm_result, result, evaluated, first_hit, stats_seen, call_vars,
                   token_ratios>>

L2(t) == stage_step(t, "L2", "ExactName", Level2(products[t].rows, norm_name(t)), "L3")

L3(t) ==
    stage_step(t, "L3", "CachedMapping",
               Level3(products[t].rows, mappings[t], norm_sku(t)), "L4")

L4(t) == stage_step(t, "L4", "FuzzySku", Level4(products[t].rows, norm_sku(t)), "L5")

\* what match_item does with the outcome h of level 5
after_level5(t, h) ==
    /\ hybrid' = [hybrid EXCEPT ![t] = h]
    /\ evaluated' = [evaluated EXCEPT ![t] = Append(@, "Hybrid")]
    /\ first_hit' = [first_hit EXCEPT ![t] =
                        IF h.outcome = "candidate"
                        THEN hit("Hybrid", fuzzy_name_result(h)) ELSE @]
    /\ error' = [error EXCEPT ![t] =
                    IF h.outcome = "IndexError" THEN "IndexError" ELSE @]
    /\ result' = [result EXCEPT ![t] =
                     IF /\ h.outcome = "candidate"
                        /\ (h.conf >= 7500 \/ ~openrouter_api_key)
                     THEN fuzzy_name_result(h)
                     ELSE IF h.outcome = "guard" /\ ~openrouter_api_key
                     THEN not_found
                     ELSE @]
    /\ pc' = [pc EXCEPT ![t] =
                 CASE h.outcome \in {"skipped", "no_candidates"} -> "L7"
                   [] h.outcome = "IndexError" -> "raised"
                   [] h.outcome \in {"candidate", "guard"} ->
                          IF (h.outcome = "candidate" /\ h.conf >= 7500)
                             \/ ~openrouter_api_key
                          THEN "stats_load" ELSE "L6"]

\* the library is a function: asked again about a pair of names, it answers
\* as before
library_agrees(lib, name) ==
    \A e \in token_ratios :
        (e.name = name /\ e.p \in DOMAIN lib) => lib[e.p] = e.score

\* the pairs of names level 5 asks the library about: the products the
\* size gates let through
asked(lib, client_name, name) ==
    {[name |-> name, p |-> q, score |-> lib[q]] :
        q \in {r \in DOMAIN lib : /\ pipe_size_gate(client_name, r)
                                  /\ thread_size_gate(client_name, r)
                                  /\ fitting_size_gate(client_name, r)}}

\* level 5; the library's scores are drawn from scores
L5(t, scores) ==
    /\ pc[t] = "L5"
    /\ \E lib \in [NeedsLib(products[t].rows, norm_name(t)) -> scores] :
          /\ library_agrees(lib, norm_name(t))
          /\ token_ratios' =
                 token_ratios \cup asked(lib, request[t].client_name, norm_name(t))
          /\ after_level5(t, Level5(products[t].rows, request[t].client_name,
                                    norm_name(t), lib))
    /\ UNCHANGED <<shared, openrouter_api_key, request, products, mappings, llm_result,
                   stats_seen>>
    /\ UNCHANGED call_vars

\* llm.set_products(products) if not llm.is_ready, then llm.match(client_name)
ask_llm(t, reply) ==
    LET ready == llm_products_cache \/ products[t].rows # << >>
    IN  /\ llm_products_cache' = ready
        /\ llm_result' = [llm_result EXCEPT ![t] =
                             LLMMatcher_match(ready, request[t].client_name, reply)]
        /\ evaluated' = [evaluated EXCEPT ![t] = Append(@, "LLM")]

\* level 6 (and the GUARD branch): the LLM is asked about the fuzzy match
L6(t, replies) ==
    /\ pc[t] = "L6"
    /\ \E reply \in replies :
          /\ ask_llm(t, reply)
          /\ result' = [result EXCEPT ![t] =
                           Level6(products[t].rows, request[t].client_name,
                                  hybrid[t], llm_result'[t])]
    /\ pc' = [pc EXCEPT ![t] = "stats_load"]
    /\ UNCHANGED <<products_cache, mappings_cache, mappings_lock, stats, db_queries,
                   openrouter_api_key, request, products, mappings, hybrid, error,
                   first_hit, stats_seen>>
    /\ UNCHANGED <<call_vars, token_ratios>>

\* level 7: LLM matching, else not found
L7(t, replies) ==
    /\ pc[t] = "L7"
    /\ IF openrouter_api_key /\ request[t].client_name # << >>
       THEN \E reply \in replies :
               /\ ask_llm(t, reply)
               /\ result' = [result EXCEPT ![t] =
                                Level7(products[t].rows, request[t].client_name,
                                       llm_result'[t])]
               /\ first_hit' = [first_hit EXCEPT ![t] =
                                   IF result'[t] # not_found
                                   THEN hit("LLM", result'[t]) ELSE @]
       ELSE /\ result' = [result EXCEPT ![t] = not_found]
            /\ UNCHANGED <<llm_products_cache, llm_result, evaluated, first_hit>>
    /\ pc' = [pc EXCEPT ![t] = "stats_load"]
    /\ UNCHANGED <<products_cache, mappings_cache, mappings_lock, stats, db_queries,
                   openrouter_api_key, request, products, mappings, hybrid, error,
                   stats_seen>>
    /\ UNCHANGED <<call_vars, token_ratios>>

(***************************************************************************)
(* _finalize_match and _update_stats (lines 591-608): the counters are     *)
(* read, then written; match_item returns the MatchResult.                 *)
(***************************************************************************)
stats_load(t) ==
    /\ pc[t] = "stats_load"
    /\ stats_seen' = [stats_seen EXCEPT ![t] = stats]
    /\ pc' = [pc EXCEPT ![t] = "stats_store"]
    /\ UNCHANGED <<shared, openrouter_api_key, request, products, mappings,
                   outcome_vars>>
    /\ UNCHANGED <<call_vars, token_ratios>>

\* _update_stats counting the call but no match type
stats_store_total_only(t) ==
    /\ pc[t] = "stats_store"
    /\ stats' = [stats EXCEPT !["total"] = stats_seen[t]["total"] + 1,
                              !["total_confidence"] =
                                  stats_seen[t]["total_confidence"] + result[t].confidence]
    /\ pc' = [pc EXCEPT ![t] = "done"]
    /\ UNCHANGED <<products_cache, mappings_cache, mappings_lock, llm_products_cache,
                   db_queries, openrouter_api_key, request, products, mappings,
                   outcome_vars, stats_seen>>
    /\ UNCHANGED <<call_vars, token_ratios>>

stats_store(t) ==
    /\ pc[t] = "stats_store"
    /\ stats' = [stats EXCEPT !["total"] = stats_seen[t]["total"] + 1,
                              !["total_confidence"] =
                                  stats_seen[t]["total_confidence"] + result[t].confidence,
                              ![result[t].match_type] =
                                  stats_seen[t][result[t].match_type] + 1]
    /\ pc' = [pc EXCEPT ![t] = "done"]
    /\ UNCHANGED <<products_cache, mappings_cache, mappings_lock, llm_products_cache,
                   db_queries, openrouter_api_key, request, products, mappings,
                   outcome_vars, stats_seen>>
    /\ UNCHANGED <<call_vars, token_ratios>>

step(t, scores, replies) ==
    \/ load_check(t)
    \/ load_query(t)
    \/ load_return(t)
    \/ map_enter(t)
    \/ map_locked(t)
    \/ map_store(t)
    \/ map_return(t)
    \/ L1(t)
    \/ L2(t)
    \/ L3(t)
    \/ L4(t)
    \/ L5(t, scores)
    \/ L6(t, replies)
    \/ L7(t, replies)
    \/ stats_load(t)
    \/ stats_store(t)

(***************************************************************************)
(* Spec: one caller, every request.                                        *)
(***************************************************************************)
Init == InitWith({1}, Requests, {NoRequest})

Next == step(1, LibScores, LLMReplies)

Spec == Init /\ [][Next]_vars

(***************************************************************************)
(* SpecConc: every caller calls match_item on the same service at once     *)
(* (bot/handlers/upload.py, _process_items_parallel: asyncio.to_thread     *)
(* per item), with a few requests, one library score and two LLM replies.  *)
(***************************************************************************)
ConcRequests ==
    { [client_id |-> "c1", client_sku |-> <<"c", "-", "7">>, client_name |-> << >>],
      [client_id |-> None, client_sku |-> << >>, client_name |-> <<"truba", "z">>],
      NoRequest }

ConcScores == {80}

ConcReplies ==
    { [kind |-> "fail", sku |-> << >>, confidence |-> [num |-> TRUE, val |-> 0]],
      [kind |-> "dict", sku |-> Product("p2").sku,
       confidence |-> [num |-> TRUE, val |-> 15000]] }

InitConc == InitWith(Callers, ConcRequests, ConcRequests)

NextConc == \E t \in Callers : step(t, ConcScores, ConcReplies)

SpecConc == InitConc /\ [][NextConc]_vars

(***************************************************************************)
(* save_mapping (lines 1017-1038), auto_save_high_confidence (1040-1064)   *)
(* and match_order_items (986-1015, with auto_save left at its default).   *)
(***************************************************************************)
\* auto-save whatever names a product
should_auto_save_any(match) == match.product_id # None

\* the test of auto_save_high_confidence (1049-1051)
should_auto_save(match) ==
    /\ match.confidence >= confidence_exact_name
    /\ match.product_id # None
    /\ match.match_type \in {"exact_sku", "exact_name", "cached_mapping"}

\* an entry of results that says auto_saved whatever happened
appended_as_saved(t, auto_saved) ==
    Append(results[t], [item |-> request[t], match |-> result[t], auto_saved |-> TRUE])

\* results.append({**item, 'match': ..., 'auto_saved': ...})
appended(t, auto_saved) ==
    Append(results[t], [item |-> request[t], match |-> result[t],
                        auto_saved |-> auto_saved])

\* for item in items: the call of match_item for the next item, or the return
order_next(t) ==
    /\ pc[t] = "order_next"
    /\ IF Len(results[t]) < Len(items[t])
       THEN /\ request' = [request EXCEPT ![t] = items[t][Len(results[t]) + 1]]
            /\ hybrid' = [hybrid EXCEPT ![t] = NoHybrid]
            /\ llm_result' = [llm_result EXCEPT ![t] = NoReply]
            /\ result' = [result EXCEPT ![t] = NoResult]
            /\ evaluated' = [evaluated EXCEPT ![t] = << >>]
            /\ first_hit' = [first_hit EXCEPT ![t] = NoHit]
            /\ pc' = [pc EXCEPT ![t] = "start"]
       ELSE /\ pc' = [pc EXCEPT ![t] = "returned"]
            /\ UNCHANGED <<request, hybrid, llm_result, result, evaluated, first_hit>>
    /\ UNCHANGED <<shared, openrouter_api_key, products, mappings, error, stats_seen,
                   call_vars, token_ratios>>

\* match_order_items after match_item has returned (1005-1014) and the test
\* of auto_save_high_confidence
auto_save(t) ==
    /\ pc[t] = "done"
    /\ op[t] = "match_order_items"
    /\ IF request[t].client_sku # << >> /\ should_auto_save(result[t])
       THEN /\ saving' = [saving EXCEPT ![t] =
                             [client_id |-> request[t].client_id,
                              client_sku |-> request[t].client_sku,
                              product_id |-> result[t].product_id,
                              verified |-> FALSE]]
            /\ pc' = [pc EXCEPT ![t] = "upsert"]
            /\ UNCHANGED results
       ELSE /\ results' = [results EXCEPT ![t] = appended(t, FALSE)]
            /\ pc' = [pc EXCEPT ![t] = "order_next"]
            /\ UNCHANGED saving
    /\ UNCHANGED <<shared, openrouter_api_key, request, products, mappings,
                   outcome_vars, stats_seen, mappings_table, mappings_response,
                   token_ratios, op, items, ext_vars>>

\* save_mapping: the upsert (1030-1033).  It may fail; auto-save swallows
\* the failure and returns False, any other caller sees it
upsert(t) ==
    /\ pc[t] = "upsert"
    /\ \/ /\ mappings_table' = Upsert(mappings_table, saving[t])
          /\ pc' = [pc EXCEPT ![t] = "invalidate"]
          /\ UNCHANGED <<results, error>>
       \/ /\ IF op[t] = "match_order_items"
             THEN /\ results' = [results EXCEPT ![t] = appended(t, FALSE)]
                  /\ pc' = [pc EXCEPT ![t] = "order_next"]
                  /\ UNCHANGED error
             ELSE /\ error' = [error EXCEPT ![t] = "save_failed"]
                  /\ pc' = [pc EXCEPT ![t] = "raised"]
                  /\ UNCHANGED results
          /\ UNCHANGED mappings_table
    /\ UNCHANGED <<shared, openrouter_api_key, request, products, mappings, hybrid,
                   llm_result, result, evaluated, first_hit, stats_seen,
                   mappings_response, token_ratios, op, items, saving, ext_vars>>

\* save_mapping: the test `if client_key in self._mappings_cache` (1037), with
\* no lock taken; without an entry auto-save returns True, and a caller that
\* goes on to match the SKU it saved calls match_item
saved(t) ==
    IF op[t] = "match_order_items"
    THEN /\ results' = [results EXCEPT ![t] = appended(t, TRUE)]
         /\ pc' = [pc EXCEPT ![t] = "order_next"]
         /\ UNCHANGED error
    ELSE /\ pc' = [pc EXCEPT ![t] = "start"]
         /\ UNCHANGED <<results, error>>

invalidate(t) ==
    /\ pc[t] = "invalidate"
    /\ IF saving[t].client_id \in DOMAIN mappings_cache
       THEN /\ pc' = [pc EXCEPT ![t] = "invalidate_del"]
            /\ UNCHANGED <<results, error>>
       ELSE saved(t)
    /\ UNCHANGED <<shared, openrouter_api_key, request, products, mappings, hybrid,
                   llm_result, result, evaluated, first_hit, stats_seen,
                   mappings_table, mappings_response, token_ratios, op, items, saving,
                   ext_vars>>

\* save_mapping: `del self._mappings_cache[client_key]` (1038), a step of its
\* own after the test.  Without the entry it raises KeyError: auto-save
\* swallows it and returns False (1061-1064), any other caller sees it
invalidate_del(t) ==
    /\ pc[t] = "invalidate_del"
    /\ IF saving[t].client_id \in DOMAIN mappings_cache
       THEN /\ mappings_cache' = [k \in DOMAIN mappings_cache \ {saving[t].client_id} |->
                                     mappings_cache[k]]
            /\ mapping_queries' = [mapping_queries EXCEPT ![saving[t].client_id] = 0]
            /\ saved(t)
       ELSE /\ IF op[t] = "match_order_items"
               THEN /\ results' = [results EXCEPT ![t] = appended(t, FALSE)]
                    /\ pc' = [pc EXCEPT ![t] = "order_next"]
                    /\ UNCHANGED error
               ELSE /\ error' = [error EXCEPT ![t] = "KeyError"]
                    /\ pc' = [pc EXCEPT ![t] = "raised"]
                    /\ UNCHANGED results
            /\ UNCHANGED <<mappings_cache, mapping_queries>>
    /\ UNCHANGED <<products_cache, mappings_lock, llm_products_cache, stats,
                   db_queries, openrouter_api_key, request, products, mappings, hybrid,
                   llm_result, result, evaluated, first_hit, stats_seen,
                   mappings_table, mappings_response, token_ratios, op, items, saving,
                   other_vars>>

\* clear_cache: self._products_cache = None (567), with no lock taken
clear_products(t) ==
    /\ pc[t] = "clear_products"
    /\ products_cache' = NoneCache
    /\ pc' = [pc EXCEPT ![t] = "clear_mappings"]
    /\ UNCHANGED <<mappings_cache, mappings_lock, llm_products_cache, stats,
                   db_queries, openrouter_api_key, request, products, mappings,
                   outcome_vars, stats_seen, call_vars, token_ratios>>

\* clear_cache: with self._mappings_lock: self._mappings_cache = {} (568-569)
clear_mappings(t) ==
    /\ pc[t] = "clear_mappings"
    /\ mappings_lock = 0
    /\ mappings_cache' = << >>
    /\ mapping_queries' = [c \in ClientIds |->
                              IF c \in DOMAIN mappings_cache THEN 0
                              ELSE mapping_queries[c]]
    /\ pc' = [pc EXCEPT ![t] = "returned"]
    /\ UNCHANGED <<products_cache, mappings_lock, llm_products_cache, stats,
                   db_queries, openrouter_api_key, request, products, mappings,
                   outcome_vars, stats_seen, mappings_table, mappings_response,
                   token_ratios, op, items, results, saving, other_vars>>

(***************************************************************************)
(* SpecOrders: one caller runs match_order_items for client c1.            *)
(***************************************************************************)
MaxItems == 2

\* "zz"
SkuZZ == <<"z", "z">>

OrderItems ==
    { [client_id |-> "c1", client_sku |-> i[1], client_name |-> i[2]] :
        i \in { <<<<"2", "0", "2", "-", "0", "0", "1">>, << >> >>, << <<"c", "-", "7">>, << >> >>,
                << <<"2", "0", "2", "0", "1">>, << >> >>,
                <<SkuZZ, <<"truba", "110x3000">> >>, <<SkuZZ, << >> >>,
                << << >>, <<"truba", "110x3000">> >>, << << >>, <<"truba", "z">> >>,
                << << >>, <<"z">> >> } }

Orders == UNION {[1..n -> OrderItems] : n \in 1..MaxItems}

InitOrders ==
    /\ InitService
    /\ InitLocals
    /\ pc = [t \in Callers |-> IF t = 1 THEN "order_next" ELSE "off"]
    /\ request = [t \in Callers |-> NoRequest]
    /\ op = [t \in Callers |-> IF t = 1 THEN "match_order_items" ELSE "match_item"]
    /\ \E order \in Orders : items = [t \in Callers |-> IF t = 1 THEN order ELSE << >>]
    /\ saving = [t \in Callers |-> NoRow]

NextOrders ==
    \/ step(1, LibScores, ConcReplies)
    \/ order_next(1)
    \/ auto_save(1)
    \/ upsert(1)
    \/ invalidate(1)
    \/ invalidate_del(1)

SpecOrders == InitOrders /\ [][NextOrders]_vars

(***************************************************************************)
(* SpecSave: caller 1 confirms a mapping (backend/routers/orders.py:       *)
(* save_mapping with verified=True) and then matches the SKU it saved;     *)
(* caller 2 is in match_item on the same service meanwhile.                *)
(***************************************************************************)
\* "q-1"
SkuQ1 == <<"q", "-", "1">>

SavedRows ==
    { [client_id |-> "c1", client_sku |-> <<"c", "-", "7">>, product_id |-> "p3",
       verified |-> TRUE],
      [client_id |-> "c1", client_sku |-> SkuQ1, product_id |-> "p1",
       verified |-> TRUE] }

InitSave ==
    /\ InitService
    /\ InitLocals
    /\ pc = [t \in Callers |-> IF t = 1 THEN "upsert" ELSE "start"]
    /\ op = [t \in Callers |-> IF t = 1 THEN "save_then_match" ELSE "match_item"]
    /\ items = [t \in Callers |-> << >>]
    /\ \E row \in SavedRows, r2 \in ConcRequests :
           /\ saving = [t \in Callers |-> IF t = 1 THEN row ELSE NoRow]
           /\ request = [t \in Callers |->
                            IF t = 1
                            THEN [client_id |-> row.client_id,
                                  client_sku |-> row.client_sku, client_name |-> << >>]
                            ELSE r2]

NextSave ==
    \E t \in Callers :
        \/ step(t, ConcScores, ConcReplies)
        \/ upsert(t)
        \/ invalidate(t)
        \/ invalidate_del(t)

SpecSave == InitSave /\ [][NextSave]_vars

(***************************************************************************)
(* SpecClear: caller 1 runs match_order_items with auto-save for client    *)
(* c1; caller 2 runs either the same or clear_cache on the same service.   *)
(***************************************************************************)
ClearItems ==
    { [client_id |-> "c1", client_sku |-> i[1], client_name |-> i[2]] :
        i \in { << <<"2", "0", "2", "-", "0", "0", "1">>, << >> >>,
                << <<"c", "-", "7">>, << >> >>,
                << << >>, <<"truba", "z">> >> } }

ClearOps == {"match_order_items", "clear_cache"}

InitClear ==
    /\ InitService
    /\ InitLocals
    /\ request = [t \in Callers |-> NoRequest]
    /\ saving = [t \in Callers |-> NoRow]
    /\ \E o2 \in ClearOps, i1 \in ClearItems, i2 \in ClearItems :
           /\ op = [t \in Callers |-> IF t = 2 THEN o2 ELSE "match_order_items"]
           /\ pc = [t \in Callers |->
                       IF t = 1 THEN "order_next"
                       ELSE IF t # 2 THEN "off"
                       ELSE IF o2 = "clear_cache" THEN "clear_products"
                       ELSE "order_next"]
           /\ items = [t \in Callers |->
                          IF t = 1 THEN <<i1>>
                          ELSE IF t = 2 /\ o2 = "match_order_items" THEN <<i2>>
                          ELSE << >>]

NextClear ==
    \E t \in {1, 2} :
        \/ step(t, ConcScores, ConcReplies)
        \/ L1_unset(t)
        \/ order_next(t)
        \/ auto_save(t)
        \/ upsert(t)
        \/ invalidate(t)
        \/ invalidate_del(t)
        \/ clear_products(t)
        \/ clear_mappings(t)

SpecClear == InitClear /\ [][NextClear]_vars

(***************************************************************************)
(* SpecFaulty: Spec with a mappings table that may fail to answer.         *)
(***************************************************************************)
\* the query of _load_client_mappings (554-558) raises: nothing catches it,
\* the with block releases the lock
map_query_fails(t) ==
    /\ pc[t] = "map_locked"
    /\ request[t].client_id \notin DOMAIN mappings_cache
    /\ error' = [error EXCEPT ![t] = "mapping_unavailable"]
    /\ mappings_lock' = 0
    /\ pc' = [pc EXCEPT ![t] = "raised"]
    /\ UNCHANGED <<products_cache, mappings_cache, llm_products_cache, stats,
                   db_queries, openrouter_api_key, request, products, mappings, hybrid,
                   llm_result, result, evaluated, first_hit, stats_seen, call_vars,
                   token_ratios>>

NextFaulty == Next \/ map_query_fails(1)

SpecFaulty == Init /\ [][NextFaulty]_vars

(***************************************************************************)
(* SpecNorm: normalize_sku and normalize_name applied to a SKU and a name, *)
(* and then to what they returned.                                         *)
(***************************************************************************)
NormChars == {"0", "1", "a", "-", " "}

NormWords == {"truba", "110x3000", "seryj", "v/r", "v.r", "v", "r", "rezba"}

InitNorm ==
    /\ InitService
    /\ InitLocals
    /\ pc = [t \in Callers |-> IF t = 1 THEN "normalize" ELSE "off"]
    /\ \E sku \in UNION {[1..n -> NormChars] : n \in 0..3},
          name \in UNION {[1..n -> NormWords] : n \in 0..2} :
           request = [t \in Callers |->
                         IF t = 1 THEN [client_id |-> None, client_sku |-> sku,
                                        client_name |-> name]
                         ELSE NoRequest]
    /\ op = [t \in Callers |-> "normalize"]
    /\ items = [t \in Callers |-> << >>]
    /\ saving = [t \in Callers |-> NoRow]

normalize(t) ==
    /\ pc[t] \in {"normalize", "normalize_again"}
    /\ request' = [request EXCEPT ![t] =
                      [client_id |-> @.client_id,
                       client_sku |-> normalize_sku(@.client_sku),
                       client_name |-> normalize_name(@.client_name)]]
    /\ pc' = [pc EXCEPT ![t] = IF pc[t] = "normalize" THEN "normalize_again"
                               ELSE "normalized"]
    /\ UNCHANGED <<shared, openrouter_api_key, products, mappings, outcome_vars,
                   stats_seen, call_vars, token_ratios>>

SpecNorm == InitNorm /\ [][normalize(1)]_vars

(***************************************************************************)
(* SpecEmbed: backend/services/embeddings.py, EmbeddingMatcher.search, and *)
(* the pre-filter of HybridStrategy.match (matching_strategies/hybrid.py   *)
(* 57-94) that calls it.                                                   *)
(***************************************************************************)
MAX_RETRIES == 3

\* what one POST to the embedding endpoint comes to
EmbedResponses ==
    {"values", "no_values", "server_error", "client_error", "timeout",
     "connect_error", "exception"}

\* result.data of the match_products call: rows of the index, which may
\* name a product the catalog no longer has
EmbedRows == {<< >>, <<"p2">>, <<"p2", "p1">>, <<"p9">>}

InitEmbed ==
    /\ InitService
    /\ InitLocals
    /\ pc = [t \in Callers |-> IF t = 1 THEN "start" ELSE "off"]
    /\ \E name \in {<< >>, <<"truba">>, <<"mufta", "32">>} :
           request = [t \in Callers |->
                         IF t = 1 THEN [client_id |-> None, client_sku |-> << >>,
                                        client_name |-> name]
                         ELSE NoRequest]
    /\ op = [t \in Callers |-> "search"]
    /\ items = [t \in Callers |-> << >>]
    /\ saving = [t \in Callers |-> NoRow]

\* search up to the call of _generate_embedding (lines 101-113): an empty
\* text returns [] at once
search(t) ==
    /\ pc[t] = "start" /\ op[t] = "search"
    /\ IF request[t].client_name = << >>
       THEN /\ pc' = [pc EXCEPT ![t] = "search_returned"]
            /\ embedding' = [embedding EXCEPT ![t].last = "no_text"]
       ELSE /\ pc' = [pc EXCEPT ![t] = "generate"]
            /\ embedding' = [embedding EXCEPT ![t].attempt = 1]
    /\ UNCHANGED <<shared, openrouter_api_key, request, products, mappings,
                   outcome_vars, stats_seen, mappings_table, mappings_response,
                   token_ratios, op, items, results, saving, mapping_queries,
                   bot_vars>>

\* one turn of the loop of _generate_embedding (lines 55-95); search
\* returns [] when it returns None (112-113)
generate(t) ==
    /\ pc[t] = "generate"
    /\ \E r \in EmbedResponses :
           /\ embedding' = [embedding EXCEPT
                  ![t].last = r,
                  ![t].attempt = IF r \in {"values", "no_values", "client_error"}
                                    \/ @ >= MAX_RETRIES
                                 THEN @ ELSE @ + 1]
           /\ pc' = [pc EXCEPT ![t] =
                  IF r = "values" THEN "rpc"
                  ELSE IF r \in {"no_values", "client_error"}
                          \/ embedding[t].attempt >= MAX_RETRIES
                  THEN "search_returned" ELSE "generate"]
    /\ UNCHANGED <<shared, openrouter_api_key, request, products, mappings,
                   outcome_vars, stats_seen, mappings_table, mappings_response,
                   token_ratios, op, items, results, saving, mapping_queries,
                   bot_vars>>

\* the match_products call and the rows it gives (lines 116-139); any
\* exception returns [] (141-143)
rpc(t) ==
    /\ pc[t] = "rpc"
    /\ \/ \E rows \in EmbedRows :
              embedding' = [embedding EXCEPT ![t].matches = rows,
                                             ![t].last = "rows"]
       \/ embedding' = [embedding EXCEPT ![t].last = "rpc_error"]
    /\ pc' = [pc EXCEPT ![t] = "search_returned"]
    /\ UNCHANGED <<shared, openrouter_api_key, request, products, mappings,
                   outcome_vars, stats_seen, mappings_table, mappings_response,
                   token_ratios, op, items, results, saving, mapping_queries,
                   bot_vars>>

\* the candidate pool always narrowed to the rows the search returned
candidate_products_narrowed(rows, semantic_results) ==
    SelectSeq(rows, LAMBDA p : \E i \in 1..Len(semantic_results) :
                                   semantic_results[i] = p)

\* HybridStrategy.match, the candidate pool (hybrid.py 61-90)
candidate_products(rows, semantic_results) ==
    LET filtered == SelectSeq(rows,
                        LAMBDA p : \E i \in 1..Len(semantic_results) :
                                       semantic_results[i] = p)
    IN  IF semantic_results # << >> /\ filtered # << >> THEN filtered ELSE rows

prefilter(t) ==
    /\ pc[t] = "search_returned"
    /\ embedding' = [embedding EXCEPT ![t].candidates =
                         candidate_products(ProductsTable, embedding[t].matches)]
    /\ pc' = [pc EXCEPT ![t] = "prefiltered"]
    /\ UNCHANGED <<shared, openrouter_api_key, request, products, mappings,
                   outcome_vars, stats_seen, mappings_table, mappings_response,
                   token_ratios, op, items, results, saving, mapping_queries,
                   bot_vars>>

SpecEmbed == InitEmbed /\ [][search(1) \/ generate(1) \/ rpc(1) \/ prefilter(1)]_vars

(***************************************************************************)
(* SpecTwice: two calls of match_item with the same input.                 *)
(***************************************************************************)
TwiceRequests ==
    [client_id : {None}, client_sku : {<< >>},
     client_name : UNION {[1..k -> Words] : k \in 0..1} \cup {<<"truba", "z">>}]
    \cup [client_id : {"c1"}, client_sku : {<<"c", "-", "7">>, <<"2", "0", "2", "0", "1">>},
          client_name : {<< >>}]

InitTwice ==
    /\ InitWith(Callers, TwiceRequests, TwiceRequests)
    /\ request[1] = request[2]

NextTwice == \E t \in Callers : step(t, LibScores, ConcReplies)

SpecTwice == InitTwice /\ [][NextTwice]_vars

(***************************************************************************)
(* SpecStats: one caller makes calls of match_item one after the other on  *)
(* one service, with reset_stats (backend/routers/analytics.py) between    *)
(* calls.                                                                  *)
(***************************************************************************)
MaxCalls == 2

StatsRequests ==
    { [client_id |-> r[1], client_sku |-> r[2], client_name |-> r[3]] :
        r \in { <<"c1", <<"2", "0", "2", "-", "0", "0", "1">>, << >> >>,
                <<"c1", <<"c", "-", "7">>, << >> >>,
                <<"c1", <<"2", "0", "2", "0", "1">>, << >> >>,
                <<None, << >>, <<"truba", "110x3000">> >>,
                <<None, << >>, <<"truba", "z">> >>,
                <<None, << >>, <<"z">> >> } }

InitStats ==
    /\ InitService
    /\ InitLocals
    /\ pc = [t \in Callers |-> IF t = 1 THEN "idle" ELSE "off"]
    /\ request = [t \in Callers |-> NoRequest]
    /\ op = [t \in Callers |-> "match_item"]
    /\ \E calls \in UNION {[1..n -> StatsRequests] : n \in 1..MaxCalls} :
           items = [t \in Callers |-> IF t = 1 THEN calls ELSE << >>]
    /\ saving = [t \in Callers |-> NoRow]

\* the next call of match_item, once the call before has returned
call_match_item(t) ==
    /\ pc[t] \in {"idle", "done"}
    /\ items[t] # << >>
    /\ request' = [request EXCEPT ![t] = Head(items[t])]
    /\ items' = [items EXCEPT ![t] = Tail(items[t])]
    /\ op' = [op EXCEPT ![t] = "match_item"]
    /\ hybrid' = [hybrid EXCEPT ![t] = NoHybrid]
    /\ llm_result' = [llm_result EXCEPT ![t] = NoReply]
    /\ result' = [result EXCEPT ![t] = NoResult]
    /\ evaluated' = [evaluated EXCEPT ![t] = << >>]
    /\ first_hit' = [first_hit EXCEPT ![t] = NoHit]
    /\ pc' = [pc EXCEPT ![t] = "start"]
    /\ UNCHANGED <<shared, openrouter_api_key, products, mappings, error, stats_seen,
                   mappings_table, mappings_response, results, saving, ext_vars,
                   token_ratios>>

\* reset_stats (586-589), between two calls
reset_stats(t) ==
    /\ pc[t] \in {"idle", "done"}
    /\ stats' = [key \in DOMAIN stats |-> 0]
    /\ op' = [op EXCEPT ![t] = "reset_stats"]
    /\ pc' = [pc EXCEPT ![t] = "done"]
    /\ UNCHANGED <<products_cache, mappings_cache, mappings_lock, llm_products_cache,
                   db_queries, openrouter_api_key, request, products, mappings,
                   outcome_vars, stats_seen, mappings_table, mappings_response, items,
                   results, saving, ext_vars, token_ratios>>

NextStats ==
    \/ step(1, LibScores, ConcReplies)
    \/ call_match_item(1)
    \/ reset_stats(1)

SpecStats == InitStats /\ [][NextStats]_vars

(***************************************************************************)
(* SpecBot: bot/main.py, webhook_handler.  The handler has no await, so a  *)
(* call is one step of the event loop.  The sizes are scaled down:         *)
(* _MAX_CACHE_SIZE is 1000 and _UPDATE_TTL is 300 in the source.           *)
(***************************************************************************)
MAX_CACHE_SIZE == 2
UPDATE_TTL == 2
MaxTime == 3
MaxDeliveries == 4

UpdateIds == {1, 2, 3}

CachedIds(cache) == {cache[i].update_id : i \in 1..Len(cache)}

\* the first loop of _cleanup_old_updates (132-137)
RECURSIVE expire_old(_, _)
expire_old(cache, now) ==
    IF cache # << >> /\ now - cache[1].time > UPDATE_TTL
    THEN expire_old(Tail(cache), now)
    ELSE cache

\* the second loop of _cleanup_old_updates (139-140)
RECURSIVE limit_size(_)
limit_size(cache) ==
    IF Len(cache) > MAX_CACHE_SIZE THEN limit_size(Tail(cache)) ELSE cache

\* _cleanup_old_updates without the limit on the size
cleanup_ttl_only(cache, now) == expire_old(cache, now)

cleanup_old_updates(cache, now) == limit_size(expire_old(cache, now))

InitWebhook ==
    /\ InitService
    /\ InitLocals
    /\ pc = [t \in Callers |-> "off"]
    /\ request = [t \in Callers |-> NoRequest]
    /\ op = [t \in Callers |-> "webhook"]
    /\ items = [t \in Callers |-> << >>]
    /\ saving = [t \in Callers |-> NoRow]

\* time passes between two deliveries
tick ==
    /\ clock < MaxTime
    /\ clock' = clock + 1
    /\ UNCHANGED <<shared, openrouter_api_key, pc, request, products, mappings,
                   outcome_vars, stats_seen, mappings_table, mappings_response, op,
                   items, results, saving, mapping_queries, embedding, token_ratios,
                   processed_updates, background_tasks, response>>

\* webhook_handler (153-177) for one delivery of update_id
webhook_handler(update_id) ==
    /\ response.calls < MaxDeliveries
    /\ IF update_id \in CachedIds(processed_updates)
       THEN /\ response' = [calls |-> response.calls + 1, update_id |-> update_id,
                            ok |-> TRUE, dispatched |-> FALSE]
            /\ UNCHANGED <<processed_updates, background_tasks>>
       ELSE /\ processed_updates' =
                   cleanup_old_updates(
                       Append(processed_updates,
                              [update_id |-> update_id, time |-> clock]), clock)
            /\ background_tasks' =
                   Append(background_tasks, [update_id |-> update_id, time |-> clock])
            /\ response' = [calls |-> response.calls + 1, update_id |-> update_id,
                            ok |-> TRUE, dispatched |-> TRUE]
    /\ UNCHANGED <<shared, openrouter_api_key, pc, request, products, mappings,
                   outcome_vars, stats_seen, mappings_table, mappings_response, op,
                   items, results, saving, mapping_queries, embedding, token_ratios,
                   clock>>

NextBot ==
    \/ tick
    \/ \E update_id \in UpdateIds : webhook_handler(update_id)

SpecBot == InitWebhook /\ [][NextBot]_vars

(***************************************************************************)
(* Properties.                                                             *)
(***************************************************************************)
IsPrefix(s, r) == Len(s) <= Len(r) /\ \A i \in 1..Len(s) : s[i] = r[i]

StageType(stage) ==
    CASE stage = "ExactSku" -> "exact_sku"
      [] stage = "ExactName" -> "exact_name"
      [] stage = "CachedMapping" -> "cached_mapping"
      [] stage = "FuzzySku" -> "fuzzy_sku"
      [] stage = "Hybrid" -> "fuzzy_name"
      [] stage = "LLM" -> "llm_match"
      [] OTHER -> "none"

\* the result returned is the match of the first stage that yielded one
ResultKept(t) ==
    /\ result[t].product_id = first_hit[t].product_id
    /\ result[t].confidence = first_hit[t].confidence
    /\ result[t].match_type = StageType(first_hit[t].stage)

\* no stage was evaluated after the first one that yielded a match
NoLaterStage(t) == evaluated[t][Len(evaluated[t])] = first_hit[t].stage

\* a Hybrid match of confidence below 75, put to the LLM
PutToLLM(t) ==
    /\ first_hit[t].stage = "Hybrid"
    /\ first_hit[t].confidence < 7500
    /\ evaluated[t][Len(evaluated[t])] = "LLM"

\* the LLM's proposal, of greater confidence, returned in its place
ReplacedByLLM(t) ==
    /\ PutToLLM(t)
    /\ result[t].match_type = "llm_match"
    /\ result[t].confidence > first_hit[t].confidence

C2_CachedMappingWins ==
    \A t \in Callers :
        LET table == client_mappings(request[t].client_id)
            no_exact ==
                \A i \in 1..Len(ProductsTable) :
                    /\ normalize_sku(Product(ProductsTable[i]).sku) # norm_sku(t)
                    /\ \/ norm_name(t) = << >>
                       \/ normalize_name(Product(ProductsTable[i]).name) # norm_name(t)
        IN  ( /\ pc[t] = "done"
              /\ no_exact
              /\ norm_sku(t) \in DOMAIN table
              /\ \E i \in 1..Len(ProductsTable) :
                     ProductsTable[i] = table[norm_sku(t)].product_id )
            => /\ result[t].match_type = "cached_mapping"
               /\ result[t].product_id = table[norm_sku(t)].product_id
               /\ result[t].confidence = 10000
               /\ result[t].needs_review = FALSE

\* a mapped SKU with a name the Hybrid stage would match, answered from the
\* mapping
C2_Witness ==
    \E t \in Callers :
        /\ pc[t] = "done"
        /\ request[t].client_name = <<"truba", "z">>
        /\ request[t].client_sku = <<"c", "-", "7">>
        /\ result[t].match_type = "cached_mapping"
        /\ result[t].product_id = "p2"

\* C3: a returned result has match_type not_found if and only if no stage
\* yielded a match for the request.
C3_NotFoundIffNoStageMatched ==
    \A t \in Callers :
        pc[t] = "done" => (result[t].match_type = "not_found" <=> first_hit[t] = NoHit)

\* every stage evaluated, the LLM asked, nothing matched
C3_Witness ==
    \E t \in Callers :
        /\ pc[t] = "done"
        /\ evaluated[t] = StageOrder
        /\ llm_result[t].answered
        /\ result[t].match_type = "not_found"

\* C4: every returned MatchResult is well formed: product_id is set exactly
\* when match_type is not not_found, and a not_found result has confidence 0
\* and needs_review true.
C4_WellFormed ==
    \A t \in Callers :
        pc[t] = "done" =>
            /\ result[t].match_type \in
                   {"exact_sku", "exact_name", "cached_mapping", "fuzzy_sku",
                    "fuzzy_name", "llm_match", "not_found"}
            /\ (result[t].product_id # None <=> result[t].match_type # "not_found")
            /\ result[t].match_type = "not_found"
                   => (result[t].confidence = 0 /\ result[t].needs_review)

\* a not_found result returned with no LLM configured
C4_Witness ==
    \E t \in Callers :
        /\ pc[t] = "done"
        /\ ~openrouter_api_key
        /\ request[t].client_name # << >>
        /\ result[t] = [product_id |-> None, confidence |-> 0,
                        match_type |-> "not_found", needs_review |-> TRUE,
                        pack_qty |-> 1]

\* C5: the confidence of every returned result lies in [0, 100], and the
\* confidence LLMMatcher.match gives back is clamped to [0, 100] (above 100
\* becomes 100, negative and non-numeric become 0).
C5_ConfidenceInRange ==
    \A t \in Callers :
        /\ 0 <= llm_result[t].confidence /\ llm_result[t].confidence <= 10000
        /\ pc[t] = "done" => (0 <= result[t].confidence /\ result[t].confidence <= 10000)

\* an LLM match returned with confidence 100: the reply said 150
C5_Witness ==
    \E t \in Callers :
        /\ pc[t] = "done"
        /\ result[t].match_type = "llm_match"
        /\ result[t].confidence = 10000

\* C6: match_item returns a MatchResult for every input; no error leaves it
\* other than a failed catalog load.
C6_NoErrorButCatalog ==
    \A t \in Callers : error[t] \in {None, "catalog_unavailable"}

\* C7: for a request whose type is critical, the returned product has that
\* type (an llm_match at least no other type), and when no scored candidate
\* has that type the Hybrid stage ends with no match.
C7_CriticalTypeKept ==
    \A t \in Callers :
        LET client_type == extract_product_type(request[t].client_name)
            product_type == extract_product_type(Product(result[t].product_id).name)
        IN  client_type \in CRITICAL_TYPES =>
                /\ (pc[t] = "done" /\ result[t].product_id # None) =>
                       \/ product_type = client_type
                       \/ result[t].match_type = "llm_match" /\ product_type = None
                /\ ( /\ hybrid[t].outcome # "none"
                     /\ \A i \in 1..Len(hybrid[t].scored) :
                            extract_product_type(Product(hybrid[t].scored[i].p).name)
                                # client_type )
                   => hybrid[t].outcome \in {"skipped", "no_candidates"}

\* C8: for a request with a pipe size, the returned product never has a
\* different pipe size, whichever stage produced it.
C8_PipeSizeKept ==
    \A t \in Callers :
        LET client_size == extract_pipe_size(request[t].client_name)
            product_size == extract_pipe_size(Product(result[t].product_id).name)
        IN  (pc[t] = "done" /\ result[t].product_id # None /\ client_size # NoSize)
                => (product_size = NoSize \/ product_size = client_size)

\* C9: for a request with a thread size, the returned product has that
\* thread size: it neither lacks one nor has another.
C9_ThreadSizeKept ==
    \A t \in Callers :
        LET client_thread_size == extract_thread_size(request[t].client_name)
        IN  ( /\ pc[t] = "done" /\ result[t].product_id # None
              /\ client_thread_size # NoSize )
            => extract_thread_size(Product(result[t].product_id).name)
                   = client_thread_size

\* C10: with callers arriving together on an unloaded catalog, the products
\* table is read exactly once and every caller works on the same rows.
C10_CatalogLoadedOnce ==
    /\ db_queries <= 1
    /\ \A t \in Callers : products[t].loaded => db_queries = 1
    /\ \A t, u \in Callers :
           (products[t].loaded /\ products[u].loaded) => products[t] = products[u]

\* C11: once save_mapping(..., verified=True) has completed, the next
\* match_item for the same client and SKU returns cached_mapping with the
\* product saved, whatever other calls for that client were in flight.
C11_SavedMappingServed ==
    \A t \in Callers :
        (op[t] = "save_then_match" /\ pc[t] = "done")
            => /\ result[t].match_type = "cached_mapping"
               /\ result[t].product_id = saving[t].product_id

\* the returned confidences of the calls of callers 1..n that have completed
RECURSIVE SumReturned(_)
SumReturned(n) ==
    IF n = 0 THEN 0
    ELSE SumReturned(n - 1) + (IF pc[n] = "done" THEN result[n].confidence ELSE 0)

\* C12: no update of the statistics is lost: with every call over, total is
\* the number of calls that completed and total_confidence the sum of the
\* confidences they returned.
C12_NoLostUpdate ==
    (\A t \in Callers : pc[t] \in {"done", "raised", "off"})
        => /\ stats["total"] = Cardinality({t \in Callers : pc[t] = "done"})
           /\ stats["total_confidence"] = SumReturned(NumCallers)

\* what auto-save requires of a match and of the SKU it came from
Qualifies(match, client_sku) ==
    /\ match.match_type \in {"exact_sku", "exact_name", "cached_mapping"}
    /\ match.confidence >= 9500
    /\ match.product_id # None
    /\ client_sku # << >>

\* C13: auto-save writes a mapping only for a match of type exact_sku,
\* exact_name or cached_mapping with confidence at least 95, a product and
\* a non-empty client SKU, and every row it writes has verified false.
C13_AutoSaveOnlyQualified ==
    \A t \in Callers :
        op[t] = "match_order_items" =>
            /\ pc[t] \in {"upsert", "invalidate"}
                   => /\ Qualifies(result[t], request[t].client_sku)
                      /\ saving[t] = [client_id |-> request[t].client_id,
                                      client_sku |-> request[t].client_sku,
                                      product_id |-> result[t].product_id,
                                      verified |-> FALSE]
            /\ \A i \in 1..Len(results[t]) :
                   results[t][i].auto_saved
                       => Qualifies(results[t][i].match, results[t][i].item.client_sku)
            /\ \A i \in 1..Len(mappings_table) :
                   (\A j \in 1..Len(MappingsTable) : MappingsTable[j] # mappings_table[i])
                       => ~mappings_table[i].verified

\* an order whose first item matched by exact name was auto-saved, and one
\* of whose items was not for want of a SKU
C13_Witness ==
    \E t \in Callers :
        /\ op[t] = "match_order_items"
        /\ pc[t] = "returned"
        /\ Len(results[t]) = 2
        /\ results[t][1].auto_saved
        /\ results[t][1].match.match_type = "exact_name"
        /\ results[t][2].match.match_type = "exact_name"
        /\ ~results[t][2].auto_saved
        /\ \E i \in 1..Len(mappings_table) :
               /\ mappings_table[i].client_sku = SkuZZ
               /\ ~mappings_table[i].verified

\* the upsert step of an auto-save that does not go through
UpsertFails(t) ==
    /\ op[t] = "match_order_items"
    /\ pc[t] = "upsert"
    /\ pc'[t] # "upsert"
    /\ pc'[t] # "invalidate"

\* C14: when the upsert of an auto-save fails, nothing is raised: the item's
\* entry holds the match as match_item returned it with auto_saved false,
\* and the loop goes on, so that an order that returns has an entry for
\* every item.
C14_SaveFailureSwallowed ==
    /\ [][\A t \in Callers :
              UpsertFails(t)
                  => /\ results'[t] =
                            Append(results[t],
                                   [item |-> request[t], match |-> result[t],
                                    auto_saved |-> FALSE])
                     /\ pc'[t] = "order_next"
                     /\ error'[t] = None
                     /\ mappings_table' = mappings_table]_vars
    /\ [](\A t \in Callers :
              /\ error[t] # "save_failed"
              /\ pc[t] = "returned"
                     => /\ Len(results[t]) = Len(items[t])
                        /\ \A i \in 1..Len(items[t]) : results[t][i].item = items[t][i])

\* an order returned whose first item qualified for auto-save, was not
\* saved, and whose second item was matched all the same
C14_Witness ==
    \E t \in Callers :
        /\ op[t] = "match_order_items"
        /\ pc[t] = "returned"
        /\ Len(results[t]) = 2
        /\ Qualifies(results[t][1].match, results[t][1].item.client_sku)
        /\ ~results[t][1].auto_saved
        /\ results[t][1].match.match_type = "cached_mapping"
        /\ results[t][2].match.product_id # None

\* C15: a failure to load a client's mappings does not leave match_item:
\* the client is treated as having no mappings and the later stages run.
C15_MappingFailureContained ==
    \A t \in Callers : error[t] # "mapping_unavailable"

\* C16: an llm_match result names a product of the catalog whose type does
\* not disagree with a critical type of the request and whose thread
\* direction does not disagree with the thread direction of the request.
C16_LLMMatchValidated ==
    \A t \in Callers :
        LET client_name == request[t].client_name
            product_name == Product(result[t].product_id).name
            client_type == extract_product_type(client_name)
            product_type == extract_product_type(product_name)
            client_thread == extract_thread_type(client_name)
            product_thread == extract_thread_type(product_name)
        IN  (pc[t] = "done" /\ result[t].match_type = "llm_match")
                => /\ \E i \in 1..Len(ProductsTable) :
                          ProductsTable[i] = result[t].product_id
                   /\ (client_type \in CRITICAL_TYPES /\ product_type # None)
                          => product_type = client_type
                   /\ (client_thread # None /\ product_thread # None)
                          => product_thread = client_thread

\* C17: a call with no client, the SKU of a catalog product and the name
\* of that product ends, once the catalog is loaded, with an exact_sku
\* result for that product.
C17_CatalogItemExactSku ==
    \A t \in Callers :
        \A i \in 1..Len(CatalogRows) :
            LET p == Product(CatalogRows[i])
            IN  (/\ pc[t] \in {"done", "raised"}
                 /\ request[t] = [client_id |-> None, client_sku |-> p.sku,
                                  client_name |-> p.name])
                    => \/ error[t] = "catalog_unavailable"
                       \/ /\ pc[t] = "done"
                          /\ result[t].match_type = "exact_sku"
                          /\ result[t].product_id = p.id

\* a call for the third catalog row by its own SKU and name has returned it
C17_Witness ==
    \E t \in Callers :
        /\ pc[t] = "done"
        /\ request[t] = [client_id |-> None, client_sku |-> Product("p3").sku,
                         client_name |-> Product("p3").name]
        /\ result[t].match_type = "exact_sku"
        /\ result[t].product_id = "p3"

\* C18: two calls of match_item on one service with the same input that
\* both end with a result other than llm_match end with the same result,
\* whatever the order and interleaving of the two calls.
C18_SameInputSameResult ==
    (/\ \A t \in Callers : pc[t] = "done" /\ result[t].match_type # "llm_match"
     /\ request[1] = request[2])
        => result[1] = result[2]

\* both calls have ended with a fuzzy_name result scored by the library
C18_Witness ==
    /\ \A t \in Callers : pc[t] = "done" /\ result[t].match_type = "fuzzy_name"
    /\ request[1] = request[2]
    /\ stats["total"] = 2

\* C19: a cached_mapping result is backed by a verified row of the mappings
\* table for the client, the normalized SKU and the product returned, and
\* no dict of the mappings cache holds an unverified row.
C19_OnlyVerifiedMappings ==
    /\ \A t \in Callers :
           (pc[t] = "done" /\ result[t].match_type = "cached_mapping")
               => \E i \in 1..Len(mappings_table) :
                      /\ mappings_table[i].verified
                      /\ mappings_table[i].client_id = request[t].client_id
                      /\ normalize_sku(mappings_table[i].client_sku) = norm_sku(t)
                      /\ mappings_table[i].product_id = result[t].product_id
    /\ \A k \in DOMAIN mappings_cache :
           \A sku \in DOMAIN mappings_cache[k] : mappings_cache[k][sku].verified

\* the second item of an order repeats the SKU "c-7" whose row the first
\* item's auto-save rewrote as unverified, and it is not served from it
C19_Witness ==
    /\ pc[1] = "done"
    /\ Len(results[1]) = 1
    /\ results[1][1].match.match_type = "cached_mapping"
    /\ results[1][1].auto_saved
    /\ request[1].client_sku = <<"c", "-", "7">>
    /\ result[1].match_type # "cached_mapping"
    /\ \E i \in 1..Len(mappings_table) :
           /\ mappings_table[i].client_sku = <<"c", "-", "7">>
           /\ ~mappings_table[i].verified

\* a SKU of more than 10 characters one of which is a blank
IsTextSku(sku) == Len(sku) > 10 /\ \E i \in 1..Len(sku) : sku[i] = " "

\* C20: a call with an empty name and a SKU of more than 10 characters
\* holding a blank has the name-based stages work on the SKU text: when the
\* call gets as far as the Hybrid stage, that stage has scored the catalog
\* against a name and has not been passed over for want of one.
C20_SkuTextTreatedAsName ==
    \A t \in Callers :
        (/\ pc[t] = "done"
         /\ request[t].client_name = << >>
         /\ IsTextSku(request[t].client_sku)
         /\ first_hit[t].stage \notin {"ExactSku", "ExactName", "CachedMapping", "FuzzySku"})
            => hybrid[t].outcome \notin {"none", "skipped"}

\* C21: normalize_sku and normalize_name are idempotent: applied to what
\* they returned, they return it unchanged.
C21_NormalizersIdempotent ==
    [][\A t \in Callers : pc[t] = "normalize_again" => request'[t] = request[t]]_vars

\* C22: for each client the mappings table is queried at most once between
\* two drops of the client's cache entry, also when calls of match_item for
\* the client run concurrently.
C22_MappingsQueriedOnce ==
    \A c \in ClientIds : mapping_queries[c] <= 1

\* two concurrent calls for client c1 are both past _load_client_mappings,
\* one of them having queried the table
C22_Witness ==
    /\ \A t \in Callers : request[t].client_id = "c1" /\ pc[t] = "done"
    /\ mapping_queries["c1"] = 1

\* C23: when the category in effect is sewer (named by the client, or the
\* default when the client names none) and no scored candidate is a sewer
\* product, the Hybrid stage yields no match.
C23_SewerFilterStrict ==
    \A t \in Callers :
        LET client_cat == detect_client_category(request[t].client_name)
            effective_cat == IF client_cat # None THEN client_cat ELSE "sewer"
            scored == hybrid[t].scored
        IN  (/\ effective_cat = "sewer"
             /\ scored # << >>
             /\ \A i \in 1..Len(scored) : ~InCategory(scored[i].p, "sewer"))
                => hybrid[t].best_match = None

\* C24: a search of the embedding index that fails or finds nothing returns
\* the empty list without raising, after at most MAX_RETRIES attempts at the
\* embedding, and the candidate pool is then the whole catalog.
C24_EmbeddingFailureContained ==
    \A t \in Callers :
        pc[t] \in {"search_returned", "prefiltered"} =>
            /\ error[t] = None
            /\ embedding[t].attempt <= MAX_RETRIES
            /\ embedding[t].last # "rows" => embedding[t].matches = << >>
            /\ (pc[t] = "prefiltered" /\ embedding[t].matches = << >>)
                   => embedding[t].candidates = ProductsTable

\* the third attempt timed out and the pool is the whole catalog
C24_Witness ==
    \E t \in Callers :
        /\ pc[t] = "prefiltered"
        /\ embedding[t].last = "timeout"
        /\ embedding[t].attempt = MAX_RETRIES
        /\ embedding[t].candidates = ProductsTable

\* C25: a fuzzy_name result names a scored candidate; its confidence is
\* that candidate's score, which is at least fuzzy_threshold and at most
\* 100, and it needs review exactly when the score is below 90.
C25_FuzzyNameConfidenceIsScore ==
    \A t \in Callers :
        (pc[t] = "done" /\ result[t].match_type = "fuzzy_name") =>
            \E i \in 1..Len(hybrid[t].scored) :
                LET m == hybrid[t].scored[i]
                IN  /\ m.p = result[t].product_id
                    /\ result[t].confidence = 100 * m.score
                    /\ fuzzy_threshold <= m.score /\ m.score <= 100
                    /\ result[t].needs_review <=> m.score < 90

\* C26: match_order_items with auto-save leaves every verified row of the
\* mappings table verified.
C26_VerifiedRowsKept ==
    \A i \in 1..Len(MappingsTable) :
        MappingsTable[i].verified =>
            \E j \in 1..Len(mappings_table) :
                /\ mappings_table[j].client_id = MappingsTable[i].client_id
                /\ mappings_table[j].client_sku = MappingsTable[i].client_sku
                /\ mappings_table[j].verified

\* C27: while clear_cache runs next to match_item, _load_products never
\* returns an unset catalog: a call that is past _load_products holds a
\* loaded list, and level 1 never raises TypeError on None
C27_CatalogNeverUnset ==
    \A t \in Callers :
        /\ pc[t] = "map_enter" => products[t].loaded
        /\ error[t] # "TypeError"

\* C28: concurrent save_mapping calls, and save_mapping next to clear_cache
\* or a mapping load, never raise: the del after the test finds its key, and
\* auto_save_high_confidence returns True whenever its upsert succeeded
C28_SaveMappingNeverRaises ==
    [][\A t \in Callers :
          (pc[t] \in {"invalidate", "invalidate_del"} /\ pc'[t] # pc[t]) =>
              /\ pc'[t] # "raised"
              /\ pc'[t] = "order_next" => results'[t][Len(results'[t])].auto_saved]_vars

KindKeys == StatKeys \ {"total", "total_confidence"}

KindSum(st) ==
    st["exact_sku"] + st["exact_name"] + st["cached_mapping"] + st["fuzzy_sku"]
    + st["fuzzy_name"] + st["llm_match"] + st["not_found"]

\* C29: with calls made one after the other, after every completed
\* match_item or reset_stats the total equals the sum of the seven per-kind
\* counters; a completed match_item adds 1 to the total and to exactly one
\* per-kind counter, and reset_stats leaves every counter at zero
C29_TotalIsSumOfKinds ==
    [][\A t \in Callers :
          /\ pc'[t] = "done" => stats'["total"] = KindSum(stats')
          /\ (pc[t] = "stats_store" /\ pc'[t] = "done") =>
                 /\ stats'["total"] = stats["total"] + 1
                 /\ \E k \in KindKeys :
                        /\ stats'[k] = stats[k] + 1
                        /\ \A j \in KindKeys \ {k} : stats'[j] = stats[j]
          /\ (op'[t] = "reset_stats" /\ pc[t] \in {"idle", "done"}) =>
                 \A k \in StatKeys : stats'[k] = 0]_vars

\* a second call has been counted after a first one of another kind
C29_Witness ==
    /\ pc[1] = "done"
    /\ op[1] = "match_item"
    /\ stats["total"] = 2
    /\ stats["exact_sku"] = 1
    /\ stats["fuzzy_name"] = 1

\* C30: webhook_handler hands an update_id to background processing at most
\* once while the id is in the dedup cache: a delivery of a cached id is
\* answered ok and adds no task; an id recorded less than UPDATE_TTL ago and
\* among the MAX_CACHE_SIZE last recorded is still cached, so it is not
\* handed over twice; and the cache never holds more than MAX_CACHE_SIZE
\* entries after a call
C30_UpdateDispatchedOnce ==
    [][/\ response'.calls > response.calls =>
            /\ response'.ok
            /\ response'.update_id \in CachedIds(processed_updates) =>
                   /\ ~response'.dispatched
                   /\ background_tasks' = background_tasks
                   /\ processed_updates' = processed_updates
            /\ Len(processed_updates') <= MAX_CACHE_SIZE
       /\ \A i \in 1..Len(background_tasks') :
             (/\ clock' - background_tasks'[i].time < UPDATE_TTL
              /\ Len(background_tasks') - i < MAX_CACHE_SIZE)
                 => /\ background_tasks'[i].update_id \in CachedIds(processed_updates')
                    /\ \A j \in (i + 1)..Len(background_tasks') :
                          background_tasks'[j].update_id # background_tasks'[i].update_id
      ]_vars

\* a repeated delivery of a cached id has just been answered, after an id
\* that had left the cache was handed over a second time
C30_Witness ==
    /\ response.ok
    /\ ~response.dispatched
    /\ response.update_id \in CachedIds(processed_updates)
    /\ \E i, j \in 1..Len(background_tasks) :
          i < j /\ background_tasks[i].update_id = background_tasks[j].update_id

====
